---- MODULE Spec2Model ----
(***************************************************************************)
(* Session lifecycle of the HTTP transport of todo-for-ai-mcp:             *)
(*   - HttpSessionManager (src/src/index.ts:867-1000), the Session         *)
(*     Registry: a Map from session id to SessionInfo plus a sweep timer;  *)
(*   - HttpTransport.handleMcpRequest (src/unnamed/part_005:307-423), the  *)
(*     Request Router: a Map from session id to the SDK transport bound    *)
(*     to it, and the three-way branch on the Mcp-Session-Id header.       *)
(* Time is the integer clock `now`; Date.now() reads it.                   *)
(***************************************************************************)
EXTENDS Integers, FiniteSets, Sequences, TLC

\* ---------------------------------------------------------------- bounds
\* Number of ids randomUUID() mints in one run.
MaxIds == 2
\* Last clock value.
MaxTime == 3
\* The idle timeout, in clock ticks (the constructor argument).
sessionTimeout == 2
\* The period of the sweep timer, in clock ticks.
SweepPeriod == 1

\* ------------------------------------------------------------- id spaces
\* The ids randomUUID() can return.
Ids == 1 .. MaxIds
\* A well-formed id a client made up: createSession never returns it.
UnknownId == MaxIds + 1
AllIds == Ids \cup {UnknownId}
Times == 0 .. MaxTime

\* The value of the next randomUUID() call: an id that was never returned
\* before. Which of the unused ids it is makes no difference to any caller,
\* so the model takes them in order.
randomUUID(used) == CHOOSE i \in Ids \ used : \A j \in Ids \ used : i <= j

\* req.headers.origin of a request without Origin header.
NoOrigin == << >>

\* req.headers['mcp-session-id'] as string | undefined: << >> is undefined,
\* <<i>> is the header naming id i.
HeaderValues == {<< >>} \cup {<<i>> : i \in AllIds}
Methods == {"POST", "GET", "DELETE"}

VARIABLES
  now,         \* the clock read by new Date()
  sessions,    \* HttpSessionManager.sessions : id -> SessionInfo
  transports,  \* HttpTransport.transports : the ids that have a transport
  issued,      \* the ids randomUUID() has returned so far
  hist,        \* history of each id (see HistInit)
  ev,          \* the last operation, its inputs, its answer and its pre-state
  timer,       \* when the setInterval callback of the registry is next due
  inflight,    \* session ids with a tool call awaiting the Tool Invoker
  allowedOrigins,  \* config.allowedOrigins
  retry,       \* the executeWithRetry call in progress (see RetryIdle)
  pacing,      \* TodoApiClient.lastRequestTime and the calls it paces
  call,        \* the last tools/call request and what it led to
  config,      \* the process start: argv, environment, CONFIG
  lifecycle    \* the two transports: running, server, registry, timers

\* The state of the Tool Invoker, of the tool dispatch, of the start and of
\* the transports' start and stop.
toolVars == <<pacing, call, config, lifecycle>>

\* The state outside the two maps and their history.
extVars == <<timer, inflight, allowedOrigins, retry, pacing, call, config,
             lifecycle>>

vars == <<now, sessions, transports, issued, hist, ev, timer, inflight,
          allowedOrigins, retry, pacing, call, config, lifecycle>>

\* ------------------------------------------------------ Session Registry
\* The SessionInfo built by createSession.
SessionInfo(id, t) ==
  [id |-> id, createdAt |-> t, lastActivity |-> t, isActive |-> TRUE]

\* Map.set(id, info)
MapSet(S, id, info) ==
  [x \in DOMAIN S \cup {id} |-> IF x = id THEN info ELSE S[x]]

\* Map.delete(id)
MapDelete(S, id) == [x \in DOMAIN S \ {id} |-> S[x]]

createSessionNotStored(S, id, t) == S

\* createSession with randomUUID() = id and new Date() = t.
createSession(S, id, t) == MapSet(S, id, SessionInfo(id, t))

removeSessionUnguarded(S, id) ==
  [sessions |-> MapDelete(S, id), threw |-> id \notin DOMAIN S]

removeSessionMarksOnly(S, id) ==
  IF id \in DOMAIN S
    THEN [sessions |-> [S EXCEPT ![id].isActive = FALSE], threw |-> FALSE]
    ELSE [sessions |-> S, threw |-> FALSE]

\* removeSession: the registry afterwards, and whether the call threw.
removeSession(S, id) ==
  IF id \in DOMAIN S
    THEN [sessions |-> MapDelete(S, id), threw |-> FALSE]
    ELSE [sessions |-> S, threw |-> FALSE]

\* timeSinceLastActivity > this.sessionTimeout
isExpiredLate(session, t) == t - session.lastActivity > sessionTimeout + 1

isExpired(session, t) == t - session.lastActivity > sessionTimeout

getSessionNoLazyExpiry(S, id, t) ==
  IF id \notin DOMAIN S
    THEN [result |-> {}, sessions |-> S]
    ELSE [result |-> {S[id]}, sessions |-> S]

\* getSession: result is {} for null, {session} otherwise.
getSession(S, id, t) ==
  IF id \notin DOMAIN S
    THEN [result |-> {}, sessions |-> S]
    ELSE IF isExpired(S[id], t)
      THEN [result |-> {}, sessions |-> removeSession(S, id).sessions]
      ELSE [result |-> {S[id]}, sessions |-> S]

updateActivityUpsert(S, id, t) ==
  IF id \in DOMAIN S
    THEN [S EXCEPT ![id].lastActivity = t]
    ELSE MapSet(S, id, SessionInfo(id, t))

updateActivityAll(S, id, t) ==
  IF id \in DOMAIN S
    THEN [x \in DOMAIN S |-> [S[x] EXCEPT !.lastActivity = t]]
    ELSE S

updateActivityAfterAwait(S, id, t) == S

updateActivity(S, id, t) ==
  IF id \in DOMAIN S
    THEN [S EXCEPT ![id].lastActivity = t]
    ELSE S

\* The for-of loop of cleanupExpiredSessions over the entries still to visit.
RECURSIVE cleanupLoop(_, _, _)
cleanupLoop(S, todo, t) ==
  IF todo = {}
    THEN S
    ELSE LET id == CHOOSE x \in todo : TRUE
         IN  cleanupLoop(IF isExpired(S[id], t)
                           THEN removeSession(S, id).sessions
                           ELSE S,
                         todo \ {id}, t)

\* A loop that returns after the first removal.
RECURSIVE cleanupLoopFirstOnly(_, _, _)
cleanupLoopFirstOnly(S, todo, t) ==
  IF todo = {}
    THEN S
    ELSE LET id == CHOOSE x \in todo : TRUE
         IN  IF isExpired(S[id], t)
               THEN removeSession(S, id).sessions
               ELSE cleanupLoopFirstOnly(S, todo \ {id}, t)

cleanupFirstOnly(S, t) == cleanupLoopFirstOnly(S, DOMAIN S, t)

cleanupByCreatedAt(S, t) ==
  [x \in {y \in DOMAIN S : t - S[y].createdAt <= sessionTimeout} |-> S[x]]

cleanupExpiredSessions(S, t) == cleanupLoop(S, DOMAIN S, t)

getActiveSessions(S) == {S[x] : x \in {y \in DOMAIN S : S[y].isActive}}

\* The value of cleanupInterval after clearInterval.
TimerOff == 0 - 1

destroyKeepsSessions(S, cleanupInterval) ==
  [sessions |-> S,
   marked |-> {[S[x] EXCEPT !.isActive = FALSE] : x \in DOMAIN S},
   cleanupInterval |-> TimerOff]

\* destroy: the registry and the timer afterwards, and the SessionInfo
\* objects as the loop left them.
destroy(S, cleanupInterval) ==
  [sessions |-> << >>,
   marked |-> {[S[x] EXCEPT !.isActive = FALSE] : x \in DOMAIN S},
   cleanupInterval |-> TimerOff]

\* ---------------------------------------------------------------- history
\* lastActivity: the lastActivity field of the SessionInfo object of the id,
\*               kept after the object left the map;
\* lastCall:     when createSession / updateActivity was last called for it;
\* spaced:       every updateActivity call so far came less than
\*               sessionTimeout after the previous call (or the creation);
\*               lastCall is no longer followed once this is false;
\* removed:      ids removed by removeSession called from outside the
\*               registry (close callback or direct call).
HistInit ==
  [lastActivity |-> [i \in AllIds |-> 0],
   lastCall     |-> [i \in AllIds |-> 0],
   spaced       |-> [i \in AllIds |-> TRUE],
   removed      |-> {}]

HistCreate(h, id, t) ==
  [h EXCEPT !.lastActivity[id] = t, !.lastCall[id] = t, !.spaced[id] = TRUE]

\* Only ids that createSession returned have a history.
HistTouch(h, S, id, t) ==
  IF id \notin issued
    THEN h
    ELSE LET ok == h.spaced[id] /\ (t - h.lastCall[id] < sessionTimeout)
         IN  [h EXCEPT !.lastActivity[id] = IF id \in DOMAIN S THEN t ELSE @,
                       !.spaced[id] = ok,
                       !.lastCall[id] = IF ok THEN t ELSE 0]

\* The same call seen from the router, which follows lastActivity only.
HistActivity(h, S, id, t) ==
  IF id \in DOMAIN S THEN [h EXCEPT !.lastActivity[id] = t] ELSE h

HistRemove(h, id) ==
  IF id \notin issued THEN h ELSE [h EXCEPT !.removed = @ \cup {id}]

\* ------------------------------------------------------------ last event
NoEv ==
  [op |-> "none", method |-> "", hdr |-> << >>, init |-> FALSE,
   status |-> 0, code |-> 0, bodyId |-> "", respHdr |-> << >>,
   routed |-> FALSE, branch |-> "", sid |-> 0, at |-> 0,
   result |-> {}, threw |-> FALSE, repeat |-> FALSE,
   origin |-> << >>, accepted |-> FALSE,
   pre |-> << >>, preT |-> {}]

\* ------------------------------------------------------------ origin gate
\* An origin or an allow-list entry is a string, written as the sequence of
\* its pieces: a scheme, host labels separated by ".", and ":" port. The
\* piece "x" is a one-character label; "*" occurs in allow-list entries only.
MaxLabels == 3
Schemes == {"http://", "https://"}
Labels == {"localhost", "evil", "com", "x"}
Separators == {".", ":"}
OneChar == {".", ":", "x"}

RECURSIVE HostsOf(_)
HostsOf(n) ==
  IF n = 1
    THEN {<<l>> : l \in Labels}
    ELSE {h \o <<".", l>> : h \in HostsOf(n - 1), l \in Labels}

Hosts == UNION {HostsOf(n) : n \in 1 .. MaxLabels}

\* The Origin header values a browser sends.
Origins ==
  {<<sc>> \o h \o p : sc \in Schemes, h \in Hosts,
                      p \in {<< >>, <<":", "5173">>}}

\* The default of config.allowedOrigins and other lists an operator can set.
DefaultAllowedOrigins ==
  << <<"http://", "localhost", ":", "*">>,
     <<"https://", "localhost", ":", "*">> >>
AllowLists ==
  { DefaultAllowedOrigins,
    << <<"http://", "localhost", ":", "5173">> >>,
    << <<"http://", "*", ".", "com">> >>,
    << <<"https://", "evil", ".", "com">>,
       <<"http://", "localhost", ":", "*">> >> }

\* allowedOrigin.includes('*')
HasWildcard(entry) == \E i \in 1 .. Len(entry) : entry[i] = "*"

\* new RegExp(`^${allowedOrigin.replace(/\*/g, '.*')}$`).test(origin):
\* "*" became ".*" and matches any run of characters, an unescaped "." of the
\* entry matches any one character, every other piece matches itself.
RECURSIVE RegExpTest(_, _)
RegExpTest(pattern, str) ==
  IF pattern = << >>
    THEN str = << >>
    ELSE IF Head(pattern) = "*"
      THEN \/ RegExpTest(Tail(pattern), str)
           \/ str # << >> /\ RegExpTest(pattern, Tail(str))
      ELSE /\ str # << >>
           /\ \/ Head(pattern) = Head(str)
              \/ Head(pattern) = "." /\ Head(str) \in OneChar
           /\ RegExpTest(Tail(pattern), Tail(str))

\* The callback of allowedOrigins.some(...)
EntryAllows(entry, origin) ==
  IF HasWildcard(entry) THEN RegExpTest(entry, origin) ELSE entry = origin

\* corsOptions.origin: callback(null, true) or callback(new Error(...)).
OriginAllowed(list, origin) ==
  \/ origin = NoOrigin
  \/ \E i \in 1 .. Len(list) : EntryAllows(list[i], origin)

RouteReachedAlways(accepted) == TRUE

\* express: cors calls next(err) on a refused origin, and a route handler
\* is never run for a request that carries an error.
RouteReached(accepted) == accepted

\* ------------------------------------------------------ executeWithRetry
maxRetries == 5
retryDelay == 2000
retryDelayMultiplier == 2

\* What the remote API does with one attempt: a 2xx answer, no answer, a
\* 500, a 429, a 400 of the Cloudflare kind, a 404 with an error body.
AnswerKinds == {"ok", "http500", "network", "http429", "http400cf", "http404"}
Transient == {"http500", "network", "http429", "http400cf"}

\* n failures of one kind, then success.
ScriptOf(kind, n) ==
  [i \in 1 .. maxRetries + 1 |-> IF i <= n THEN kind ELSE "ok"]

\* The answers of the remote API to the attempts of one call, in order.
Scripts ==
  [1 .. maxRetries + 1 -> {"ok", "http500", "network"}]
    \cup {ScriptOf(kind, n) : kind \in AnswerKinds \ {"ok"},
                              n \in 1 .. maxRetries + 1}

\* The methods of TodoApiClient behind the six tools.
Operations ==
  {"getProjectTasksByName", "getTaskById", "submitTaskFeedback",
   "createTask", "getProjectInfo", "listUserProjects"}

\* The methods whose body is return this.executeWithRetry(...); the others
\* post once inside try { } catch (error) { throw error }.
usesExecuteWithRetry(op) ==
  op \in {"getProjectTasksByName", "listUserProjects"}

RECURSIVE Pow(_, _)
Pow(b, n) == IF n = 0 THEN 1 ELSE b * Pow(b, n - 1)

StatusOf(kind) ==
  CASE kind = "ok" -> 200
    [] kind = "http500" -> 500
    [] kind = "http429" -> 429
    [] kind = "http400cf" -> 400
    [] kind = "http404" -> 404
    [] OTHER -> 0

\* validateStatus: (status) => status < 500
validateStatus(status) == status < 500

\* axios rejects the post: no answer, or a status validateStatus refuses.
Rejected(kind) == kind = "network" \/ ~validateStatus(StatusOf(kind))

\* The AxiosError axios rejects with for an answer that is not "ok".
AxiosErrorOf(kind) ==
  [hasResponse |-> kind # "network",
   status |-> StatusOf(kind),
   cloudflare |-> kind = "http400cf"]

\* handleApiError, applied by the response interceptor to every rejection:
\* a new Error whose message is 'API Error: ...', 'HTTP 500: ...' or
\* 'Network Error: ...'; it has no response field. The message contains
\* 'AxiosError' only if the text the server or the configuration supplied
\* (error message, status text, base URL) does.
handleApiError(axiosError, suppliedTextHasAxiosError) ==
  [hasResponse |-> FALSE, status |-> 0, cloudflare |-> FALSE,
   messageIncludesAxiosError |-> suppliedTextHasAxiosError]

\* throw new Error(apiResponse.error) in the operation, for an answer axios
\* resolved whose body carries an error: a plain Error with the server's
\* text.
bodyError(suppliedTextHasAxiosError) ==
  [hasResponse |-> FALSE, status |-> 0, cloudflare |-> FALSE,
   messageIncludesAxiosError |-> suppliedTextHasAxiosError]

\* What await operation() throws for an answer that is not "ok".
operationError(kind, text) ==
  IF Rejected(kind)
    THEN handleApiError(AxiosErrorOf(kind), text)
    ELSE bodyError(text)

shouldRetryUnbounded(error, attempt) ==
  IF ~error.hasResponse THEN TRUE
  ELSE IF error.status >= 500 /\ error.status < 600 THEN TRUE
  ELSE IF error.status = 429 THEN TRUE
  ELSE error.status = 400 /\ error.cloudflare

shouldRetry(error, attempt) ==
  IF attempt >= maxRetries THEN FALSE
  ELSE IF ~error.hasResponse THEN TRUE
  ELSE IF error.status >= 500 /\ error.status < 600 THEN TRUE
  ELSE IF error.status = 429 THEN TRUE
  ELSE error.status = 400 /\ error.cloudflare

\* No call in progress.
RetryIdle ==
  [pc |-> "idle", op |-> "", script |-> << >>, text |-> FALSE,
   attempt |-> 0, waits |-> << >>, attempts |-> 0, result |-> "none"]

\* for (let attempt = 0; attempt <= this.retryConfig.maxRetries; attempt++)
loopContinues(attempt) == attempt <= maxRetries

\* -------------------------------------------------------- request pacing
minRequestInterval == 500
\* The calls that enter enforceRequestInterval.
MaxCalls == 3
Calls == 1 .. MaxCalls
\* Date.now() is followed for this many half intervals.
MaxHalfIntervals == 4
HalfInterval == minRequestInterval \div 2
\* The moments Date.now() takes: the client was built long after 1970, so
\* the first call finds lastRequestTime = 0 at least one interval back.
ClockStart == minRequestInterval
ClockEnd == ClockStart + MaxHalfIntervals * HalfInterval

\* private lastRequestTime: number = 0; no call has entered yet.
\* sleeping: the calls in await this.sleep(waitTime), with the moment their
\* timer is due; left: the moment each call left enforceRequestInterval.
PacingStart ==
  [clock |-> ClockStart, lastRequestTime |-> 0, sleeping |-> << >>,
   left |-> << >>]

\* No tools/call yet.
CallIdle ==
  [pc |-> "idle", name |-> "", args |-> {}, hasArgs |-> FALSE,
   dispatched |-> "", posted |-> FALSE, error |-> ""]

\* The process has not started.
ConfigIdle ==
  [pc |-> "idle", args |-> << >>, env |-> << >>, cfg |-> << >>,
   error |-> "", transportType |-> ""]

\* Neither transport has been started: BaseTransport.running is false, the
\* optional fields are undefined, no setInterval handle is live.
LifecycleStopped ==
  [running |-> FALSE, pc |-> "idle", httpServer |-> "none",
   sessionManager |-> FALSE, timers |-> 0, last |-> "none",
   stdioRunning |-> FALSE, stdioTransport |-> FALSE, stdioLast |-> "none"]

\* The HTTP transport after its start() has returned: the server listens,
\* the registry exists and its one timer is armed.
LifecycleServing ==
  [LifecycleStopped EXCEPT !.running = TRUE, !.httpServer = "listening",
                           !.sessionManager = TRUE, !.timers = 1,
                           !.last = "start"]

Init ==
  /\ now = 0
  /\ sessions = << >>
  /\ transports = {}
  /\ issued = {}
  /\ hist = HistInit
  /\ ev = NoEv
  /\ timer = SweepPeriod
  /\ inflight = {}
  /\ allowedOrigins = DefaultAllowedOrigins
  /\ retry = RetryIdle
  /\ pacing = PacingStart
  /\ call = CallIdle
  /\ config = ConfigIdle
  /\ lifecycle = LifecycleServing

\* The clock advances.
Tick ==
  /\ now < MaxTime
  /\ now' = now + 1
  /\ ev' = [NoEv EXCEPT !.op = "tick"]
  /\ UNCHANGED <<sessions, transports, issued, hist>>
  /\ UNCHANGED extVars

\* The setInterval callback of startCleanupTimer.
Sweep ==
  /\ sessions' = cleanupExpiredSessions(sessions, now)
  /\ ev' = [NoEv EXCEPT !.op = "sweep", !.at = now, !.pre = sessions,
                        !.preT = transports]
  /\ UNCHANGED <<now, transports, issued, hist>>
  /\ UNCHANGED extVars

\* ---------------------------------------------------------- Request Router
IsContinuationNoLookup(h) == h # << >>

\* sessionId && this.transports.has(sessionId)
IsContinuation(h) == h # << >> /\ h[1] \in transports

IsNewInitializeAnyHeader(m, h, init) == m = "POST" /\ init

\* !sessionId && req.method === 'POST' && isInitializeRequest(req.body)
IsNewInitialize(m, h, init) == h = << >> /\ m = "POST" /\ init

\* transport.handleRequest of an initialized SDK transport whose session id
\* the header matches: DELETE closes the transport, GET opens the push
\* stream, a POST is processed unless it is a second initialize.
TransportHandleRequest(m, init) ==
  IF m = "DELETE" THEN [status |-> 200, code |-> 0, closes |-> TRUE]
  ELSE IF m = "GET" THEN [status |-> 200, code |-> 0, closes |-> FALSE]
  ELSE IF init THEN [status |-> 400, code |-> -32600, closes |-> FALSE]
  ELSE [status |-> 200, code |-> 0, closes |-> FALSE]

\* The request as recorded in ev.
ReqEv(m, h, init, o) ==
  [NoEv EXCEPT !.op = "request", !.method = m, !.hdr = h, !.init = init,
               !.origin = o,
               !.at = now, !.pre = sessions, !.preT = transports]

oncloseKeepsSession(S, T, id) ==
  [sessions |-> S, transports |-> T \ {id}, threw |-> FALSE]

\* transport.onclose of the transport whose sessionId is id:
\* this.transports.delete(id); this.sessionManager?.removeSession(id).
onclose(S, T, id) ==
  [sessions |-> removeSession(S, id).sessions,
   transports |-> T \ {id},
   threw |-> removeSession(S, id).threw]

\* Branch 1: reuse the transport of the session id, touch the session, hand
\* the request to the transport; a DELETE makes the transport close, and its
\* onclose drops the map entry and calls removeSession.
ReuseTransportCore(m, h, init, o) ==
  /\ IsContinuation(h)
  /\ LET sid == h[1]
         touched == updateActivity(sessions, sid, now)
         r == TransportHandleRequest(m, init)
         closed == onclose(touched, transports, sid)
     IN  /\ sessions' = IF r.closes THEN closed.sessions ELSE touched
         /\ transports' = IF r.closes THEN closed.transports ELSE transports
         /\ hist' = IF r.closes
                      THEN HistRemove(HistActivity(hist, sessions, sid, now),
                                      sid)
                      ELSE HistActivity(hist, sessions, sid, now)
         /\ ev' = [ReqEv(m, h, init, o) EXCEPT
                     !.branch = "reuse", !.sid = sid, !.routed = TRUE,
                     !.status = r.status, !.code = r.code,
                     !.bodyId = IF r.code = 0 THEN "request" ELSE "null",
                     !.respHdr = <<sid>>,
                     !.threw = r.closes /\ closed.threw]
  /\ UNCHANGED <<now, issued>>

ReuseTransport(m, h, init, o) ==
  /\ ReuseTransportCore(m, h, init, o)
  /\ UNCHANGED extVars

\* Branch 2: a new SDK transport; its sessionIdGenerator calls createSession,
\* onsessioninitialized stores the transport under the new id, and the SDK
\* answers with the id in the Mcp-Session-Id header.
NewSession(m, h, init, o) ==
  /\ ~IsContinuation(h)
  /\ IsNewInitialize(m, h, init)
  /\ Ids \ issued # {}
  /\ LET id == randomUUID(issued) IN
       /\ sessions' = createSession(sessions, id, now)
       /\ transports' = transports \cup {id}
       /\ issued' = issued \cup {id}
       /\ hist' = HistCreate(hist, id, now)
       /\ ev' = [ReqEv(m, h, init, o) EXCEPT
                   !.branch = "new", !.sid = id, !.routed = TRUE,
                   !.status = 200, !.bodyId = "request", !.respHdr = <<id>>]
  /\ UNCHANGED now
  /\ UNCHANGED extVars

\* Branch 3: res.status(400).json({error: {code: -32000}, id: null}).
InvalidRequest(m, h, init, o) ==
  /\ ~IsContinuation(h)
  /\ ~IsNewInitialize(m, h, init)
  /\ ev' = [ReqEv(m, h, init, o) EXCEPT
              !.branch = "invalid", !.status = 400, !.code = -32000,
              !.bodyId = "null"]
  /\ UNCHANGED <<now, sessions, transports, issued, hist>>
  /\ UNCHANGED extVars

handleMcpRequest(m, h, init, o) ==
  \/ ReuseTransport(m, h, init, o)
  \/ NewSession(m, h, init, o)
  \/ InvalidRequest(m, h, init, o)

\* A GET or a DELETE carries no body: isInitializeRequest(req.body) is false.
\* An MCP client that is not a browser page sends no Origin header.
Request == \E m \in Methods, h \in HeaderValues, init \in BOOLEAN :
             /\ init => m = "POST"
             /\ handleMcpRequest(m, h, init, NoOrigin)

\* GET /health: activeSessions is getActiveSessions().length || 0.
Health ==
  /\ ev' = [NoEv EXCEPT !.op = "health", !.method = "GET", !.at = now,
                        !.status = 200,
                        !.result = {Cardinality(getActiveSessions(sessions))},
                        !.pre = sessions, !.preT = transports]
  /\ UNCHANGED <<now, sessions, transports, issued, hist>>
  /\ UNCHANGED extVars

Next == Tick \/ Sweep \/ Request \/ Health

Spec == Init /\ [][Next]_vars

\* ----------------------------------------------- the sweep on its timer
\* setInterval re-arms the callback one period after it was due.
nextDue(due) == due + SweepPeriod

\* The clock does not pass a callback that is due.
TimerTick ==
  /\ now < timer
  /\ Tick

\* The setInterval callback of startCleanupTimer, run when it is due.
TimerSweep ==
  /\ now = timer
  /\ sessions' = cleanupExpiredSessions(sessions, now)
  /\ timer' = nextDue(timer)
  /\ ev' = [NoEv EXCEPT !.op = "sweep", !.at = now, !.pre = sessions,
                        !.preT = transports]
  /\ UNCHANGED <<now, transports, issued, hist>>
  /\ UNCHANGED <<inflight, allowedOrigins, retry>>
  /\ UNCHANGED toolVars

NextTimer == TimerTick \/ TimerSweep \/ Request

SpecTimer == Init /\ [][NextTimer]_vars

\* ------------------------------------------ transport close, tool calls
\* transport.close() of the transport of a session, called by the SDK or by
\* the server: it fires onclose, also when it was closed before.
TransportClose ==
  /\ \E id \in issued :
       LET closed == onclose(sessions, transports, id)
       IN  /\ sessions' = closed.sessions
           /\ transports' = closed.transports
           /\ hist' = HistRemove(hist, id)
           /\ ev' = [NoEv EXCEPT !.op = "close", !.sid = id, !.at = now,
                                 !.threw = closed.threw,
                                 !.pre = sessions, !.preT = transports]
  /\ UNCHANGED <<now, issued>>
  /\ UNCHANGED extVars

\* The requests that end a session or open one.
LifecycleRequest ==
  \/ handleMcpRequest("POST", << >>, TRUE, NoOrigin)
  \/ \E h \in HeaderValues : handleMcpRequest("DELETE", h, FALSE, NoOrigin)

NextClose == Tick \/ Sweep \/ LifecycleRequest \/ TransportClose

SpecClose == Init /\ [][NextClose]_vars

\* A POST that is not an initialize, with or without a session id.
MessagePost ==
  \E h \in HeaderValues : handleMcpRequest("POST", h, FALSE, NoOrigin)

\* Sessions opened, continued and ended under the clock and the sweep.
NextTouch == Tick \/ Sweep \/ LifecycleRequest \/ MessagePost

SpecTouch == Init /\ [][NextTouch]_vars

completionTouchesSession(S, id, t) == updateActivityUpsert(S, id, t)

\* What the end of a tool call does to the registry: the handler only logs
\* after await transport.handleRequest(...), the CallTool handler does not
\* know the registry.
completion(S, id, t) == S

\* A POST tools/call on the continuation path: the handler awaits the
\* transport while the Tool Invoker works.
ToolCallRequest ==
  /\ \E h \in HeaderValues :
       /\ ReuseTransportCore("POST", h, FALSE, NoOrigin)
       /\ inflight' = inflight \cup {h[1]}
  /\ UNCHANGED <<timer, allowedOrigins, retry>>
  /\ UNCHANGED toolVars

\* The Tool Invoker answers and the awaiting handler resumes; the answer is
\* written to the transport if it is still in the map and dropped otherwise.
ToolCallComplete ==
  /\ \E id \in inflight :
       /\ inflight' = inflight \ {id}
       /\ sessions' = completion(sessions, id, now)
       /\ ev' = [NoEv EXCEPT !.op = "complete", !.sid = id, !.at = now,
                             !.routed = id \in transports,
                             !.pre = sessions, !.preT = transports]
  /\ UNCHANGED <<now, transports, issued, hist>>
  /\ UNCHANGED <<timer, allowedOrigins, retry>>
  /\ UNCHANGED toolVars

NextCalls ==
  Tick \/ Sweep \/ LifecycleRequest \/ ToolCallRequest \/ ToolCallComplete

SpecCalls == Init /\ [][NextCalls]_vars


\* ---------------------------------------------------------- origin gate
\* The server is started with one of the allow-lists.
InitOrigin ==
  /\ now = 0
  /\ sessions = << >>
  /\ transports = {}
  /\ issued = {}
  /\ hist = HistInit
  /\ ev = NoEv
  /\ timer = SweepPeriod
  /\ inflight = {}
  /\ allowedOrigins \in AllowLists
  /\ retry = RetryIdle
  /\ pacing = PacingStart
  /\ call = CallIdle
  /\ config = ConfigIdle
  /\ lifecycle = LifecycleServing

\* corsOptions.origin is called with the Origin header of a request.
CheckOrigin ==
  /\ \E o \in Origins \cup {NoOrigin} :
       ev' = [NoEv EXCEPT !.op = "cors", !.origin = o,
                          !.accepted = OriginAllowed(allowedOrigins, o)]
  /\ UNCHANGED <<now, sessions, transports, issued, hist>>
  /\ UNCHANGED extVars

NextOrigin == CheckOrigin

SpecOrigin == InitOrigin /\ [][NextOrigin]_vars

\* The Origin headers pages send to /mcp: a local page, a foreign page.
GateOrigins ==
  {<<"http://", "localhost", ":", "5173">>,
   <<"http://", "evil", ".", "com">>}

\* A request whose origin cors refused: next(err) skips every route, the
\* default error handler of express answers 500.
RefusedByCors(m, o) ==
  /\ ev' = [NoEv EXCEPT !.op = "request", !.method = m, !.at = now,
                        !.branch = "cors", !.origin = o, !.status = 500,
                        !.pre = sessions, !.preT = transports]
  /\ UNCHANGED <<now, sessions, transports, issued, hist>>
  /\ UNCHANGED extVars

\* A request to /mcp passes app.use(cors(corsOptions)) before its route.
GatedRequest ==
  \E o \in GateOrigins :
    IF RouteReached(OriginAllowed(allowedOrigins, o))
      THEN \E m \in Methods, h \in HeaderValues, init \in BOOLEAN :
             /\ init => m = "POST"
             /\ handleMcpRequest(m, h, init, o)
      ELSE \E m \in Methods : RefusedByCors(m, o)

NextGate == Tick \/ Sweep \/ GatedRequest

SpecGate == Init /\ [][NextGate]_vars

\* ------------------------------------------------------ executeWithRetry
\* A Tool Invoker operation is started: the remote API will answer its
\* attempts by the script.
RetryStart ==
  /\ retry.pc = "idle"
  /\ \E op \in Operations, sc \in Scripts, text \in BOOLEAN :
       retry' = [RetryIdle EXCEPT !.pc = "attempt", !.op = op,
                                  !.script = sc, !.text = text]
  /\ UNCHANGED <<now, sessions, transports, issued, hist, ev>>
  /\ UNCHANGED <<timer, inflight, allowedOrigins>>
  /\ UNCHANGED toolVars

\* One post to the remote API. In executeWithRetry: one turn of the for
\* loop, await operation() and the catch block. In the other methods: the
\* try block, and the catch that logs and rethrows.
Attempt ==
  /\ retry.pc = "attempt"
  /\ LET kind == retry.script[retry.attempt + 1]
         error == operationError(kind, retry.text)
         delay == retryDelay * Pow(retryDelayMultiplier, retry.attempt)
     IN  retry' =
           IF kind = "ok"
             THEN [retry EXCEPT !.pc = "done", !.result = "ok",
                                !.attempts = @ + 1]
             ELSE IF /\ usesExecuteWithRetry(retry.op)
                     /\ error.messageIncludesAxiosError
                     /\ shouldRetry(error, retry.attempt)
               THEN [retry EXCEPT !.pc = "sleep", !.attempts = @ + 1,
                                  !.waits = Append(@, delay)]
               ELSE [retry EXCEPT !.pc = "done", !.result = "error",
                                  !.attempts = @ + 1]
  /\ UNCHANGED <<now, sessions, transports, issued, hist, ev>>
  /\ UNCHANGED <<timer, inflight, allowedOrigins>>
  /\ UNCHANGED toolVars

\* await this.sleep(delay) returns; continue: attempt++ and the loop test,
\* and throw lastError when the loop is left.
Wake ==
  /\ retry.pc = "sleep"
  /\ retry' = IF loopContinues(retry.attempt + 1)
                THEN [retry EXCEPT !.pc = "attempt", !.attempt = @ + 1]
                ELSE [retry EXCEPT !.pc = "done", !.result = "error",
                                   !.attempt = @ + 1]
  /\ UNCHANGED <<now, sessions, transports, issued, hist, ev>>
  /\ UNCHANGED <<timer, inflight, allowedOrigins>>
  /\ UNCHANGED toolVars

\* -------------------------------------------------------- request pacing
\* const waitTime = this.minRequestInterval - timeSinceLastRequest
waitTime(since) == minRequestInterval - since

\* A call enters enforceRequestInterval: it reads the clock and
\* lastRequestTime, and either goes to sleep or stamps lastRequestTime and
\* leaves.
PaceEnter ==
  /\ \E c \in Calls \ (DOMAIN pacing.sleeping \cup DOMAIN pacing.left) :
       LET timeSinceLastRequest == pacing.clock - pacing.lastRequestTime
       IN  pacing' =
             IF timeSinceLastRequest < minRequestInterval
               THEN [pacing EXCEPT
                       !.sleeping = MapSet(@, c,
                         pacing.clock + waitTime(timeSinceLastRequest))]
               ELSE [pacing EXCEPT
                       !.lastRequestTime = pacing.clock,
                       !.left = MapSet(@, c, pacing.clock)]
  /\ UNCHANGED <<now, sessions, transports, issued, hist, ev>>
  /\ UNCHANGED <<timer, inflight, allowedOrigins, retry, call, config,
               lifecycle>>

\* The timer of a sleeping call is due: this.lastRequestTime = Date.now()
\* and the call leaves.
PaceWake ==
  /\ \E c \in DOMAIN pacing.sleeping :
       /\ pacing.sleeping[c] <= pacing.clock
       /\ pacing' = [pacing EXCEPT
                       !.sleeping = MapDelete(@, c),
                       !.lastRequestTime = pacing.clock,
                       !.left = MapSet(@, c, pacing.clock)]
  /\ UNCHANGED <<now, sessions, transports, issued, hist, ev>>
  /\ UNCHANGED <<timer, inflight, allowedOrigins, retry, call, config,
               lifecycle>>

\* Date.now() advances, not past a timer that is due.
PaceTick ==
  /\ pacing.clock + HalfInterval <= ClockEnd
  /\ \A c \in DOMAIN pacing.sleeping : pacing.sleeping[c] > pacing.clock
  /\ pacing' = [pacing EXCEPT !.clock = @ + HalfInterval]
  /\ UNCHANGED <<now, sessions, transports, issued, hist, ev>>
  /\ UNCHANGED <<timer, inflight, allowedOrigins, retry, call, config,
               lifecycle>>

NextPacing == PaceEnter \/ PaceWake \/ PaceTick

SpecPacing == Init /\ [][NextPacing]_vars

NextRetry == RetryStart \/ Attempt \/ Wake

SpecRetry == Init /\ [][NextRetry]_vars

\* ----------------------------------------------------------- tools/call
\* The names of the tools array the ListTools handler returns.
ListToolsNames ==
  {"get_project_tasks_by_name", "get_task_by_id", "submit_task_feedback",
   "create_task", "get_project_info", "list_user_projects"}

\* inputSchema.required of each tool of the ListTools answer.
Required(name) ==
  CASE name = "get_project_tasks_by_name" -> {"project_name"}
    [] name = "get_task_by_id" -> {"task_id"}
    [] name = "submit_task_feedback" ->
         {"task_id", "project_name", "feedback_content", "status"}
    [] name = "create_task" -> {"project_id", "title"}
    [] OTHER -> {}

CallToolCasesFive ==
  {"get_project_tasks_by_name", "get_task_by_id", "submit_task_feedback",
   "create_task", "get_project_info"}

\* The case labels of switch (name) in the CallTool handler.
CallToolCases ==
  {"get_project_tasks_by_name", "get_task_by_id", "submit_task_feedback",
   "create_task", "get_project_info", "list_user_projects"}

\* The method of TodoApiClient the handler of each case calls.
HandlerOf(name) ==
  CASE name = "get_project_tasks_by_name" -> "getProjectTasksByName"
    [] name = "get_task_by_id" -> "getTaskById"
    [] name = "submit_task_feedback" -> "submitTaskFeedback"
    [] name = "create_task" -> "createTask"
    [] name = "get_project_info" -> "getProjectInfo"
    [] name = "list_user_projects" -> "listUserProjects"
    [] OTHER -> ""

\* The fields a tools/call may carry a value for.
ArgFields ==
  {"task_id", "project_name", "feedback_content", "status", "project_id",
   "title"}

\* The tool names clients send: the listed ones and two others.
ToolNameInputs == ListToolsNames \cup {"delete_task", "tools/list"}

\* What a method of TodoApiClient throws before it posts, "" if it posts:
\* every method but listUserProjects reads a field of args on entry, and
\* listUserProjects when it builds the payload, so undefined arguments give
\* a TypeError; getProjectInfo throws an Error unless project_id or
\* project_name is given. No method looks at another field.
throwsBeforePost(op, hasArgs, args) ==
  IF ~hasArgs THEN "TypeError"
  ELSE IF op = "getProjectInfo" /\ args \cap {"project_id", "project_name"} = {}
    THEN "Error: Either project_id or project_name must be provided"
  ELSE ""

\* The CallTool handler for { name, arguments: args }: the switch, the
\* handler of the case, the method of the client up to its post.
CallTool ==
  /\ call.pc = "idle"
  /\ \E name \in ToolNameInputs, hasArgs \in BOOLEAN, args \in SUBSET ArgFields :
       /\ ~hasArgs => args = {}
       /\ LET known == name \in CallToolCases
              op == IF known THEN HandlerOf(name) ELSE ""
              thrown == IF known THEN throwsBeforePost(op, hasArgs, args)
                                 ELSE "Error: Unknown tool"
          IN  call' = [pc |-> "done", name |-> name, args |-> args,
                       hasArgs |-> hasArgs, dispatched |-> op,
                       posted |-> known /\ thrown = "",
                       error |-> thrown]
  /\ UNCHANGED <<now, sessions, transports, issued, hist, ev>>
  /\ UNCHANGED <<timer, inflight, allowedOrigins, retry, pacing, config,
               lifecycle>>

NextTools == CallTool

SpecTools == Init /\ [][NextTools]_vars

\* -------------------------------------------------------- configuration
\* A string is the sequence of its tokens: a numeral is written digit by
\* digit, every other word is one token. A value that may be undefined is a
\* record: def tells whether it is defined, s is the string.
Undefined == [def |-> FALSE, s |-> << >>]

Lit(s) == [def |-> TRUE, s |-> s]

\* JavaScript truthiness of a string or undefined.
Truthy(v) == v.def /\ v.s # << >>

\* a || b
LogicalOr(a, b) == IF Truthy(a) THEN a ELSE b

\* A number is NaN or an integer; a comparison with NaN is false.
NaN == [nan |-> TRUE, n |-> 0]

Num(n) == [nan |-> FALSE, n |-> n]

Lt(a, k) == ~a.nan /\ a.n < k

Gt(a, k) == ~a.nan /\ a.n > k

DigitTokens == {"0", "1", "2", "3", "4", "5", "6", "7", "8", "9"}

DigitValue(c) ==
  CASE c = "0" -> 0 [] c = "1" -> 1 [] c = "2" -> 2 [] c = "3" -> 3
    [] c = "4" -> 4 [] c = "5" -> 5 [] c = "6" -> 6 [] c = "7" -> 7
    [] c = "8" -> 8 [] c = "9" -> 9

RECURSIVE parseDigits(_, _, _)
parseDigits(s, i, acc) ==
  IF i > Len(s) \/ s[i] \notin DigitTokens THEN acc
  ELSE parseDigits(s, i + 1, acc * 10 + DigitValue(s[i]))

RECURSIVE skipWhiteSpace(_, _)
skipWhiteSpace(s, i) ==
  IF i <= Len(s) /\ s[i] = " " THEN skipWhiteSpace(s, i + 1) ELSE i

\* parseInt(s, 10): leading white space, an optional sign, then the longest
\* run of digits; NaN if there is no digit there.
parseInt(s) ==
  LET i0 == skipWhiteSpace(s, 1)
      signed == i0 <= Len(s) /\ s[i0] \in {"-", "+"}
      i1 == IF signed THEN i0 + 1 ELSE i0
      magnitude == parseDigits(s, i1, 0)
  IN  IF i1 > Len(s) \/ s[i1] \notin DigitTokens THEN NaN
      ELSE IF signed /\ s[i0] = "-" THEN Num(0 - magnitude)
      ELSE Num(magnitude)

\* The settings of TodoConfig.
Settings ==
  {"apiBaseUrl", "apiToken", "apiTimeout", "logLevel", "transport",
   "httpHost", "httpPort", "sessionTimeout", "enableDnsRebindingProtection",
   "allowedOrigins", "maxConnections"}

\* The keys of args getConfig reads for a setting, in the order it reads
\* them.
Flags(setting) ==
  CASE setting = "apiBaseUrl" -> <<"api-base-url", "base-url">>
    [] setting = "apiToken" -> <<"api-token", "token">>
    [] setting = "apiTimeout" -> <<"api-timeout", "timeout">>
    [] setting = "logLevel" -> <<"log-level">>
    [] setting = "transport" -> <<"transport">>
    [] setting = "httpHost" -> <<"http-host">>
    [] setting = "httpPort" -> <<"http-port">>
    [] setting = "sessionTimeout" -> <<"session-timeout">>
    [] setting = "enableDnsRebindingProtection" -> <<"dns-protection">>
    [] setting = "allowedOrigins" -> <<"allowed-origins">>
    [] setting = "maxConnections" -> <<"max-connections">>

\* The environment variable getConfig reads for a setting.
EnvName(setting) ==
  CASE setting = "apiBaseUrl" -> "TODO_API_BASE_URL"
    [] setting = "apiToken" -> "TODO_API_TOKEN"
    [] setting = "apiTimeout" -> "TODO_API_TIMEOUT"
    [] setting = "logLevel" -> "LOG_LEVEL"
    [] setting = "transport" -> "TODO_TRANSPORT"
    [] setting = "httpHost" -> "TODO_HTTP_HOST"
    [] setting = "httpPort" -> "TODO_HTTP_PORT"
    [] setting = "sessionTimeout" -> "TODO_SESSION_TIMEOUT"
    [] setting = "enableDnsRebindingProtection" -> "TODO_DNS_PROTECTION"
    [] setting = "allowedOrigins" -> "TODO_ALLOWED_ORIGINS"
    [] setting = "maxConnections" -> "TODO_MAX_CONNECTIONS"

CliKeys == UNION {{Flags(st)[i] : i \in DOMAIN Flags(st)} : st \in Settings}

EnvKeys == {EnvName(st) : st \in Settings}

\* The string getConfig falls back to when neither a flag nor a variable
\* gives a setting; the token has none, DNS protection falls back to the
\* value false and the allowed origins to DefaultAllowedOrigins.
DefaultString(setting) ==
  CASE setting = "apiBaseUrl" ->
         Lit(<<"https://", "todo4ai.org/todo-for-ai/api/v1">>)
    [] setting = "apiTimeout" -> Lit(<<"1", "0", "0", "0", "0">>)
    [] setting = "logLevel" -> Lit(<<"info">>)
    [] setting = "transport" -> Lit(<<"auto">>)
    [] setting = "httpHost" -> Lit(<<"127.0.0.1">>)
    [] setting = "httpPort" -> Lit(<<"3", "0", "0", "0">>)
    [] setting = "sessionTimeout" -> Lit(<<"3", "0", "0", "0", "0", "0">>)
    [] setting = "maxConnections" -> Lit(<<"1", "0", "0">>)
    [] OTHER -> Undefined

\* The elements of process.argv: '--key=value', '--key' or any other word.
FlagEq(key, value) == [flag |-> TRUE, eq |-> TRUE, key |-> key, s |-> value]

Flag(key) == [flag |-> TRUE, eq |-> FALSE, key |-> key, s |-> << >>]

Plain(word) == [flag |-> FALSE, eq |-> FALSE, key |-> "", s |-> word]

NoArgs == [k \in CliKeys |-> Undefined]

RECURSIVE parseArgsFrom(_, _, _)
parseArgsFrom(argv, i, args) ==
  IF i > Len(argv) THEN args
  ELSE LET arg == argv[i] IN
    IF ~arg.flag THEN parseArgsFrom(argv, i + 1, args)
    ELSE IF arg.eq
      THEN parseArgsFrom(argv, i + 1,
                         IF arg.key # "" THEN [args EXCEPT ![arg.key] = Lit(arg.s)]
                                         ELSE args)
    ELSE IF i + 1 <= Len(argv) /\ argv[i + 1].s # << >> /\ ~argv[i + 1].flag
      THEN parseArgsFrom(argv, i + 2,
                         [args EXCEPT ![arg.key] = Lit(argv[i + 1].s)])
    ELSE parseArgsFrom(argv, i + 1, [args EXCEPT ![arg.key] = Lit(<<"true">>)])

\* parseArgs(), for a command line without --help and --version.
parseArgs(argv) == parseArgsFrom(argv, 1, NoArgs)

\* apiBaseUrl without its last '/'.
removeTrailingSlash(url) ==
  IF Len(url) > 0 /\ url[Len(url)] = "/" THEN SubSeq(url, 1, Len(url) - 1)
  ELSE url

RECURSIVE splitFrom(_, _, _, _)
splitFrom(s, i, piece, pieces) ==
  IF i > Len(s) THEN Append(pieces, piece)
  ELSE IF s[i] = "," THEN splitFrom(s, i + 1, << >>, Append(pieces, piece))
  ELSE splitFrom(s, i + 1, Append(piece, s[i]), pieces)

\* s.split(',')
split(s) == splitFrom(s, 1, << >>, << >>)

RECURSIVE trimEnd(_)
trimEnd(s) ==
  IF Len(s) > 0 /\ s[Len(s)] = " " THEN trimEnd(SubSeq(s, 1, Len(s) - 1))
  ELSE s

\* o.trim()
trim(s) == trimEnd(SubSeq(s, skipWhiteSpace(s, 1), Len(s)))

\* a value other than 'false' and '0' switches DNS protection on
isSwitchedOn(v) == v.s # <<"false">> /\ v.s # <<"0">>

\* getConfig(), from the parsed arguments and the environment.
getConfig(args, env) ==
  LET allowedOriginsStr ==
        LogicalOr(args["allowed-origins"], env["TODO_ALLOWED_ORIGINS"])
      apiToken ==
        LogicalOr(LogicalOr(args["api-token"], args["token"]),
                  env["TODO_API_TOKEN"])
  IN  [apiBaseUrl |->
         removeTrailingSlash(
           LogicalOr(LogicalOr(LogicalOr(args["api-base-url"], args["base-url"]),
                               env["TODO_API_BASE_URL"]),
                     DefaultString("apiBaseUrl")).s),
       apiTimeout |->
         parseInt(LogicalOr(LogicalOr(LogicalOr(args["api-timeout"], args["timeout"]),
                                      env["TODO_API_TIMEOUT"]),
                            DefaultString("apiTimeout")).s),
       logLevel |->
         LogicalOr(LogicalOr(args["log-level"], env["LOG_LEVEL"]),
                   DefaultString("logLevel")).s,
       transport |->
         LogicalOr(LogicalOr(args["transport"], env["TODO_TRANSPORT"]),
                   DefaultString("transport")).s,
       httpPort |->
         parseInt(LogicalOr(LogicalOr(args["http-port"], env["TODO_HTTP_PORT"]),
                            DefaultString("httpPort")).s),
       httpHost |->
         LogicalOr(LogicalOr(args["http-host"], env["TODO_HTTP_HOST"]),
                   DefaultString("httpHost")).s,
       sessionTimeout |->
         parseInt(LogicalOr(LogicalOr(args["session-timeout"],
                                      env["TODO_SESSION_TIMEOUT"]),
                            DefaultString("sessionTimeout")).s),
       enableDnsRebindingProtection |->
         IF args["dns-protection"].def THEN isSwitchedOn(args["dns-protection"])
         ELSE IF env["TODO_DNS_PROTECTION"].def
           THEN isSwitchedOn(env["TODO_DNS_PROTECTION"])
         ELSE FALSE,
       allowedOrigins |->
         IF Truthy(allowedOriginsStr)
           THEN LET pieces == split(allowedOriginsStr.s)
                IN  [i \in DOMAIN pieces |-> trim(pieces[i])]
           ELSE DefaultAllowedOrigins,
       maxConnections |->
         parseInt(LogicalOr(LogicalOr(args["max-connections"],
                                      env["TODO_MAX_CONNECTIONS"]),
                            DefaultString("maxConnections")).s),
       apiToken |-> IF Truthy(apiToken) THEN apiToken ELSE Undefined]

minSessionTimeout == 10000

sessionTimeoutNeverTooSmall(cfg) == FALSE

\* config.sessionTimeout < 10000
sessionTimeoutTooSmall(cfg) == Lt(cfg.sessionTimeout, minSessionTimeout)

\* config.apiBaseUrl.startsWith('http')
startsWithHttp(url) == Len(url) > 0 /\ url[1] \in {"http://", "https://"}

\* The words made of letters, digits, '.' and '-' only.
HostWords == {"127.0.0.1", "0.0.0.0", "localhost", "true"}

\* config.httpHost.match(/^[a-zA-Z0-9.-]+$/)
matchesHostPattern(host) ==
  /\ host # << >>
  /\ \A i \in DOMAIN host : host[i] \in HostWords \cup DigitTokens

\* validateConfig(config): the message of the Error it throws, "" if none.
validateConfig(cfg) ==
  IF cfg.apiBaseUrl = << >> THEN "TODO_API_BASE_URL is required"
  ELSE IF ~startsWithHttp(cfg.apiBaseUrl)
    THEN "TODO_API_BASE_URL must be a valid HTTP URL"
  ELSE IF ~Truthy(cfg.apiToken) THEN "API token is required"
  ELSE IF Lt(cfg.apiTimeout, 1000)
    THEN "TODO_API_TIMEOUT must be at least 1000ms"
  ELSE IF cfg.logLevel \notin {<<"debug">>, <<"info">>, <<"warn">>, <<"error">>}
    THEN "LOG_LEVEL must be one of: debug, info, warn, error"
  ELSE IF Lt(cfg.httpPort, 1) \/ Gt(cfg.httpPort, 65535)
    THEN "HTTP port must be between 1 and 65535"
  ELSE IF sessionTimeoutTooSmall(cfg)
    THEN "Session timeout must be at least 10000ms (10 seconds)"
  ELSE IF Lt(cfg.maxConnections, 1) THEN "Max connections must be at least 1"
  ELSE IF ~matchesHostPattern(cfg.httpHost)
    THEN "HTTP host must be a valid hostname or IP address"
  ELSE ""

\* TransportFactory.create(config): the type of the transport it returns.
TransportFactoryCreate(cfg) == [type |-> "stdio"]

\* The numerals and near-numerals given to --session-timeout.
MaxDigits == 5

NumeralTokens == {"0", "1", "-", "x"}

Numerals == UNION {[1 .. n -> NumeralTokens] : n \in 0 .. MaxDigits}

\* The values given to a setting, on the command line or in the
\* environment.
Values(setting) ==
  CASE setting = "apiBaseUrl" ->
         {<< >>, <<"http://", "api">>, <<"https://", "api", "/">>,
          <<"ftp://", "api">>}
    [] setting = "apiToken" -> {<< >>, <<"tk1">>, <<"tk2">>}
    [] setting = "apiTimeout" ->
         {<< >>, <<"5", "0", "0", "0">>, <<"5", "0", "0">>, <<"x">>}
    [] setting = "logLevel" -> {<< >>, <<"debug">>, <<"error">>, <<"verbose">>}
    [] setting = "transport" ->
         {<< >>, <<"http">>, <<"stdio">>, <<"auto">>, <<"invalid">>}
    [] setting = "httpHost" ->
         {<< >>, <<"0.0.0.0">>, <<"localhost">>, <<"my_host">>}
    [] setting = "httpPort" ->
         {<< >>, <<"8", "0", "8", "0">>, <<"0">>, <<"7", "0", "0", "0", "0">>}
    [] setting = "sessionTimeout" ->
         {<< >>, <<"6", "0", "0", "0", "0">>, <<"5", "0", "0", "0">>}
    [] setting = "enableDnsRebindingProtection" ->
         {<< >>, <<"true">>, <<"false">>, <<"0">>, <<"1">>}
    [] setting = "allowedOrigins" ->
         {<< >>, <<"http://", "localhost", ":", "5173">>,
          <<"http://", "a", ",", " ", "http://", "b">>}
    [] setting = "maxConnections" -> {<< >>, <<"5", "0">>, <<"0">>}

CliValues(setting) ==
  IF setting = "sessionTimeout" THEN Numerals ELSE Values(setting)

\* The command lines that give a setting: not at all, as --key=value, as
\* --key value or as --key alone, followed or not by its second flag as
\* --key=value.
ArgvInputs(setting) ==
  LET key == Flags(setting)[1]
      first == {<< >>, <<Flag(key)>>}
                 \cup {<<FlagEq(key, v)>> : v \in CliValues(setting)}
                 \cup {<<Flag(key), Plain(v)>> : v \in CliValues(setting)}
      second == {<< >>}
                  \cup IF Len(Flags(setting)) > 1
                         THEN {<<FlagEq(Flags(setting)[2], v)>> :
                                 v \in Values(setting)}
                         ELSE {}
  IN  {a \o b : a \in first, b \in second}

EnvInputs(setting) == {Undefined} \cup {Lit(v) : v \in Values(setting)}

\* The module body of config.ts: CONFIG = getConfig(); validateConfig(CONFIG),
\* for a command line and an environment that give one setting and, or not,
\* the token.
Startup ==
  /\ config.pc = "idle"
  /\ \E setting \in Settings, tokenGiven \in BOOLEAN :
       /\ setting = "apiToken" => ~tokenGiven
       /\ \E argv \in ArgvInputs(setting), e \in EnvInputs(setting) :
            LET args == parseArgs(argv \o (IF tokenGiven
                                             THEN <<FlagEq("api-token", <<"tk">>)>>
                                             ELSE << >>))
                env == [k \in EnvKeys |->
                          IF k = EnvName(setting) THEN e ELSE Undefined]
                cfg == getConfig(args, env)
                thrown == validateConfig(cfg)
            IN  config' = [pc |-> IF thrown = "" THEN "loaded" ELSE "rejected",
                           args |-> args, env |-> env, cfg |-> cfg,
                           error |-> thrown, transportType |-> ""]
  /\ UNCHANGED <<now, sessions, transports, issued, hist, ev>>
  /\ UNCHANGED <<timer, inflight, allowedOrigins, retry, pacing, call,
               lifecycle>>

\* The server creates its transport from the accepted configuration.
CreateTransport ==
  /\ config.pc = "loaded"
  /\ config' = [config EXCEPT !.pc = "running",
                              !.transportType =
                                 TransportFactoryCreate(config.cfg).type]
  /\ UNCHANGED <<now, sessions, transports, issued, hist, ev>>
  /\ UNCHANGED <<timer, inflight, allowedOrigins, retry, pacing, call,
               lifecycle>>

NextConfig == Startup \/ CreateTransport

SpecConfig == Init /\ [][NextConfig]_vars

\* ------------------------------------- the registry called on its own
CreateSession ==
  /\ Ids \ issued # {}
  /\ LET id == randomUUID(issued) IN
       /\ sessions' = createSession(sessions, id, now)
       /\ issued' = issued \cup {id}
       /\ hist' = HistCreate(hist, id, now)
       /\ ev' = [NoEv EXCEPT !.op = "createSession", !.sid = id, !.at = now,
                             !.result = {id},
                             !.pre = sessions, !.preT = transports]
  /\ UNCHANGED <<now, transports>>
  /\ UNCHANGED extVars

GetSession ==
  /\ \E id \in AllIds :
       LET r == getSession(sessions, id, now)
       IN  /\ sessions' = r.sessions
           /\ ev' = [NoEv EXCEPT !.op = "getSession", !.sid = id, !.at = now,
                                 !.result = r.result,
                                 !.pre = sessions, !.preT = transports]
  /\ UNCHANGED <<now, transports, issued, hist>>
  /\ UNCHANGED extVars

UpdateActivity ==
  /\ \E id \in AllIds :
       /\ sessions' = updateActivity(sessions, id, now)
       /\ hist' = HistTouch(hist, sessions, id, now)
       /\ ev' = [NoEv EXCEPT !.op = "updateActivity", !.sid = id, !.at = now,
                             !.pre = sessions, !.preT = transports]
  /\ UNCHANGED <<now, transports, issued>>
  /\ UNCHANGED extVars

RemoveSession ==
  /\ \E id \in AllIds :
       LET r == removeSession(sessions, id)
       IN  /\ sessions' = r.sessions
           /\ hist' = HistRemove(hist, id)
           /\ ev' = [NoEv EXCEPT !.op = "removeSession", !.sid = id,
                                 !.at = now, !.threw = r.threw,
                                 !.repeat = (ev.op = "removeSession"
                                             /\ ev.sid = id),
                                 !.pre = sessions, !.preT = transports]
  /\ UNCHANGED <<now, transports, issued>>
  /\ UNCHANGED extVars

NextRegistry ==
  Tick \/ Sweep \/ CreateSession \/ GetSession \/ UpdateActivity
    \/ RemoveSession

SpecRegistry == Init /\ [][NextRegistry]_vars

\* ------------------------------------------------- the registry torn down
\* How far the clock runs while the registry is called on its own and torn
\* down.
MaxTeardownTime == 2

\* The clock does not pass a callback that is due; a cleared timer is
\* never due.
TeardownTick ==
  /\ timer = TimerOff \/ now < timer
  /\ now < MaxTeardownTime
  /\ Tick

\* destroy() called on the registry.
Destroy ==
  /\ LET r == destroy(sessions, timer)
     IN  /\ sessions' = r.sessions
         /\ timer' = r.cleanupInterval
         /\ ev' = [NoEv EXCEPT !.op = "destroy", !.at = now,
                               !.result = r.marked,
                               !.pre = sessions, !.preT = transports]
  /\ UNCHANGED <<now, transports, issued, hist>>
  /\ UNCHANGED <<inflight, allowedOrigins, retry>>
  /\ UNCHANGED toolVars

NextTeardown ==
  TeardownTick \/ TimerSweep \/ CreateSession \/ GetSession
    \/ UpdateActivity \/ RemoveSession \/ Destroy

SpecTeardown == Init /\ [][NextTeardown]_vars

\* ------------------------------------ the transports started and stopped
\* How many setInterval handles are live at once.
MaxTimers == 2

\* A start() or stop() call as recorded in ev: what it found, and the
\* message of the Error it threw.
LifeEv(op, error) ==
  [NoEv EXCEPT !.op = op, !.at = now, !.threw = (error # ""),
               !.result = {[lifecycle |-> lifecycle, timer |-> timer,
                            error |-> error]},
               !.pre = sessions, !.preT = transports]

\* Before either transport is started.
InitLifecycle ==
  /\ now = 0
  /\ sessions = << >>
  /\ transports = {}
  /\ issued = {}
  /\ hist = HistInit
  /\ ev = NoEv
  /\ timer = TimerOff
  /\ inflight = {}
  /\ allowedOrigins = DefaultAllowedOrigins
  /\ retry = RetryIdle
  /\ pacing = PacingStart
  /\ call = CallIdle
  /\ config = ConfigIdle
  /\ lifecycle = LifecycleStopped

\* How far the clock runs while the transports are started and stopped.
MaxLifecycleTime == 1

\* The clock does not pass a callback that is due.
LifecycleTick ==
  /\ timer = TimerOff \/ now < timer
  /\ now < MaxLifecycleTime
  /\ Tick

\* HttpTransport.start(server), up to its await of startServer(): it throws
\* when running; otherwise it makes a new HttpSessionManager, whose
\* constructor arms a timer, and calls app.listen.
HttpStart ==
  /\ lifecycle.pc = "idle"
  /\ IF lifecycle.running
       THEN /\ ev' = LifeEv("http.start", "HTTP transport is already running")
            /\ UNCHANGED <<sessions, timer, lifecycle>>
       ELSE /\ lifecycle.timers < MaxTimers
            /\ sessions' = << >>
            /\ timer' = now + SweepPeriod
            /\ lifecycle' = [lifecycle EXCEPT !.sessionManager = TRUE,
                                              !.timers = @ + 1,
                                              !.httpServer = "binding",
                                              !.pc = "starting"]
            /\ ev' = LifeEv("http.start", "")
  /\ UNCHANGED <<now, transports, issued, hist>>
  /\ UNCHANGED <<inflight, allowedOrigins, retry, pacing, call, config>>

\* The callback of app.listen: startServer() resolves, start() sets running
\* and returns.
HttpListening ==
  /\ lifecycle.pc = "starting"
  /\ lifecycle' = [lifecycle EXCEPT !.httpServer = "listening",
                                    !.running = TRUE, !.pc = "idle",
                                    !.last = "start"]
  /\ ev' = LifeEv("http.started", "")
  /\ UNCHANGED <<now, sessions, transports, issued, hist, timer>>
  /\ UNCHANGED <<inflight, allowedOrigins, retry, pacing, call, config>>

\* The 'error' event of the server (the port cannot be bound):
\* startServer() rejects, the catch block of start() logs and rethrows.
HttpListenError ==
  /\ lifecycle.pc = "starting"
  /\ lifecycle' = [lifecycle EXCEPT !.httpServer = "failed", !.pc = "idle"]
  /\ ev' = LifeEv("http.startFailed", "listen")
  /\ UNCHANGED <<now, sessions, transports, issued, hist, timer>>
  /\ UNCHANGED <<inflight, allowedOrigins, retry, pacing, call, config>>

\* HttpTransport.stop(), up to its await of httpServer.close(): it returns
\* at once when not running; otherwise it deletes every entry of the
\* transport map and asks the server to close.
HttpStop ==
  /\ lifecycle.pc = "idle"
  /\ IF ~lifecycle.running
       THEN /\ ev' = LifeEv("http.stop", "")
            /\ UNCHANGED <<transports, lifecycle>>
       ELSE /\ transports' = {}
            /\ lifecycle' = [lifecycle EXCEPT !.httpServer = "closing",
                                              !.pc = "stopping"]
            /\ ev' = LifeEv("http.stop", "")
  /\ UNCHANGED <<now, sessions, issued, hist, timer>>
  /\ UNCHANGED <<inflight, allowedOrigins, retry, pacing, call, config>>

\* The callback of httpServer.close(), once the open connections have
\* ended: stop() destroys the registry, drops its references, clears
\* running and returns.
HttpClosed ==
  /\ lifecycle.pc = "stopping"
  /\ LET r == destroy(sessions, timer)
     IN  /\ sessions' = r.sessions
         /\ timer' = r.cleanupInterval
  /\ lifecycle' = [lifecycle EXCEPT !.httpServer = "none",
                                    !.sessionManager = FALSE,
                                    !.timers = @ - 1,
                                    !.running = FALSE, !.pc = "idle",
                                    !.last = "stop"]
  /\ ev' = LifeEv("http.stopped", "")
  /\ UNCHANGED <<now, transports, issued, hist>>
  /\ UNCHANGED <<inflight, allowedOrigins, retry, pacing, call, config>>

\* A request that opens or ends a session is routed while the server
\* listens, and, on a connection that was open when close() was called,
\* until that connection ends.
ServedRequest ==
  /\ lifecycle.httpServer \in {"listening", "closing"}
  /\ LifecycleRequest

\* StdioTransport.start(server): it throws when running; otherwise it makes
\* a StdioServerTransport and awaits server.connect, which resolves (ok) or
\* rejects.
StdioStart ==
  \E ok \in BOOLEAN :
    /\ IF lifecycle.stdioRunning
         THEN /\ ev' = LifeEv("stdio.start",
                              "Stdio transport is already running")
              /\ UNCHANGED lifecycle
         ELSE /\ lifecycle' =
                   [lifecycle EXCEPT !.stdioTransport = TRUE,
                                     !.stdioRunning = ok,
                                     !.stdioLast = IF ok THEN "start" ELSE @]
              /\ ev' = LifeEv("stdio.start", IF ok THEN "" ELSE "connect")
    /\ UNCHANGED <<now, sessions, transports, issued, hist, timer>>
    /\ UNCHANGED <<inflight, allowedOrigins, retry, pacing, call, config>>

\* StdioTransport.stop(): it returns at once when not running; otherwise it
\* awaits transport.close(), which resolves (ok) or rejects.
StdioStop ==
  \E ok \in BOOLEAN :
    /\ IF ~lifecycle.stdioRunning
         THEN /\ ev' = LifeEv("stdio.stop", "")
              /\ UNCHANGED lifecycle
         ELSE IF ok
           THEN /\ lifecycle' = [lifecycle EXCEPT !.stdioTransport = FALSE,
                                                  !.stdioRunning = FALSE,
                                                  !.stdioLast = "stop"]
                /\ ev' = LifeEv("stdio.stop", "")
           ELSE /\ ev' = LifeEv("stdio.stop", "close")
                /\ UNCHANGED lifecycle
    /\ UNCHANGED <<now, sessions, transports, issued, hist, timer>>
    /\ UNCHANGED <<inflight, allowedOrigins, retry, pacing, call, config>>

NextLifecycle ==
  LifecycleTick \/ TimerSweep \/ ServedRequest \/ HttpStart \/ HttpListening
    \/ HttpListenError \/ HttpStop \/ HttpClosed \/ StdioStart \/ StdioStop

SpecLifecycle == InitLifecycle /\ [][NextLifecycle]_vars

\* ----------------------------------- body parsing and errors of a request
\* The Content-Type headers a POST arrives with, and what its body holds: an
\* initialize request, another JSON-RPC message, text that JSON.parse
\* rejects (these three within the size limit), more bytes than the limit,
\* or nothing.
ContentTypes == {"application/json", "text/plain", "application/xml"}
Bodies == {"initialize", "message", "garbage", "oversized", "empty"}

\* type: ['application/json', 'text/plain'] of express.json.
ParsedTypes == {"application/json", "text/plain"}

\* express.json({limit, strict: false, type}) on a POST: a request without
\* a body or of another type is passed on with req.body = {}; a body over
\* the limit is an error of status 413; a body JSON.parse rejects is a
\* SyntaxError of status 400 that carries the body.
expressJson(contentType, body) ==
  IF body = "empty" \/ contentType \notin ParsedTypes
    THEN [error |-> "", parsed |-> FALSE]
  ELSE IF body = "oversized"
    THEN [error |-> "PayloadTooLargeError", parsed |-> FALSE]
  ELSE IF body = "garbage"
    THEN [error |-> "SyntaxError", parsed |-> FALSE]
  ELSE [error |-> "", parsed |-> TRUE]

jsonErrorMiddlewareNext(error) ==
  [status |-> 400, code |-> 0, bodyId |-> "", branch |-> "express"]

\* The error middleware after express.json: a SyntaxError with a body is
\* answered 400 with the JSON-RPC parse error; any other error goes to
\* next(error), and the default error handler of express answers with the
\* status of the error.
jsonErrorMiddleware(error) ==
  IF error = "SyntaxError"
    THEN [status |-> 400, code |-> -32700, bodyId |-> "null",
          branch |-> "framing"]
    ELSE [status |-> 413, code |-> 0, bodyId |-> "", branch |-> "express"]

\* What the request carried, as recorded in ev.result.
Carried(contentType, body) ==
  {[contentType |-> contentType, body |-> body]}

\* A POST that express.json failed on is answered by the error middleware;
\* no route runs.
AnsweredByMiddleware(h, contentType, body) ==
  /\ LET r == jsonErrorMiddleware(expressJson(contentType, body).error)
     IN  ev' = [NoEv EXCEPT !.op = "request", !.method = "POST", !.hdr = h,
                            !.at = now, !.status = r.status, !.code = r.code,
                            !.bodyId = r.bodyId, !.branch = r.branch,
                            !.result = Carried(contentType, body),
                            !.pre = sessions, !.preT = transports]
  /\ UNCHANGED <<now, sessions, transports, issued, hist>>
  /\ UNCHANGED extVars

\* transport.handleRequest of the SDK transport on a POST it cannot read:
\* a Content-Type without application/json is answered 415, a body that is
\* no JSON-RPC message (req.body = {}) is answered 400 with a parse error.
TransportRefuses(contentType) ==
  IF contentType = "application/json"
    THEN [status |-> 400, code |-> -32700]
    ELSE [status |-> 415, code |-> -32000]

\* handleMcpRequest on a POST the SDK transport cannot read: a body that
\* express.json passed on unparsed (isInitializeRequest({}) is false), or a
\* parsed body of type text/plain. With the id of a transport in the map
\* the session is touched before the transport answers; an initialize makes
\* a transport that answers before it generates a session id; anything
\* else is the invalid branch.
UnreadablePost(h, contentType, body) ==
  LET init == expressJson(contentType, body).parsed
                /\ body = "initialize"
      r == TransportRefuses(contentType)
      base == [ReqEv("POST", h, init, NoOrigin) EXCEPT
                 !.result = Carried(contentType, body)]
  IN
  /\ IF IsContinuation(h)
       THEN /\ sessions' = updateActivity(sessions, h[1], now)
            /\ hist' = HistActivity(hist, sessions, h[1], now)
            /\ ev' = [base EXCEPT !.branch = "reuse", !.sid = h[1],
                                  !.routed = TRUE, !.status = r.status,
                                  !.code = r.code, !.bodyId = "null",
                                  !.respHdr = << >>]
       ELSE IF IsNewInitialize("POST", h, init)
         THEN /\ ev' = [base EXCEPT !.branch = "new", !.routed = TRUE,
                                    !.status = r.status, !.code = r.code,
                                    !.bodyId = "null"]
              /\ UNCHANGED <<sessions, hist>>
         ELSE /\ ev' = [base EXCEPT !.branch = "invalid", !.status = 400,
                                    !.code = -32000, !.bodyId = "null"]
              /\ UNCHANGED <<sessions, hist>>
  /\ UNCHANGED <<now, transports, issued>>
  /\ UNCHANGED extVars

\* A POST to /mcp passes express.json and its error middleware before its
\* route.
FramedRequest ==
  \E h \in HeaderValues, contentType \in ContentTypes, body \in Bodies :
    LET p == expressJson(contentType, body) IN
      IF p.error # ""
        THEN AnsweredByMiddleware(h, contentType, body)
      ELSE IF p.parsed /\ contentType = "application/json"
        THEN handleMcpRequest("POST", h, body = "initialize", NoOrigin)
      ELSE UnreadablePost(h, contentType, body)

\* Where a request fails: server.connect(transport) rejects, or
\* transport.handleRequest rejects before or after it has begun to answer.
Faults == {"connect", "handleRequest", "handleRequestAfterHeaders"}

catchBlockRethrows(headersSent) ==
  [status |-> 0, code |-> 0, bodyId |-> "", propagates |-> TRUE]

\* The catch block of handleMcpRequest: it logs, answers 500 with the
\* JSON-RPC internal error unless the answer has begun (then the status
\* already sent, 200, stands), and does not rethrow.
catchBlock(headersSent) ==
  IF headersSent
    THEN [status |-> 200, code |-> 0, bodyId |-> "", propagates |-> FALSE]
    ELSE [status |-> 500, code |-> -32603, bodyId |-> "null",
          propagates |-> FALSE]

\* The route awaits handleMcpRequest: a rejection of it is an unhandled
\* rejection, on which the global handler logs and calls process.exit(1)
\* after a second.
unhandledRejection(propagates) == IF propagates THEN "exit" ELSE "running"

\* A request during which server.connect or transport.handleRequest
\* rejects. On the continuation path the session has been touched before;
\* server.connect is called on the initialize path only, before the
\* transport generates a session id.
FailingRequest ==
  \E m \in Methods, h \in HeaderValues, fault \in Faults :
    LET init == (fault = "connect")
        c == catchBlock(fault = "handleRequestAfterHeaders")
        base == [ReqEv(m, h, init, NoOrigin) EXCEPT
                   !.routed = TRUE, !.status = c.status, !.code = c.code,
                   !.bodyId = c.bodyId, !.threw = c.propagates,
                   !.result = {[fault |-> fault,
                                process |->
                                  unhandledRejection(c.propagates)]}]
    IN
    /\ IF fault = "connect"
         THEN /\ ~IsContinuation(h)
              /\ IsNewInitialize(m, h, init)
              /\ ev' = [base EXCEPT !.branch = "new"]
              /\ UNCHANGED <<sessions, hist>>
         ELSE /\ IsContinuation(h)
              /\ sessions' = updateActivity(sessions, h[1], now)
              /\ hist' = HistActivity(hist, sessions, h[1], now)
              /\ ev' = [base EXCEPT !.branch = "reuse", !.sid = h[1]]
    /\ UNCHANGED <<now, transports, issued>>
    /\ UNCHANGED extVars

\* How far the clock runs while requests are framed and fail.
MaxErrorsTime == 1

ErrorsTick ==
  /\ now < MaxErrorsTime
  /\ Tick

NextErrors == ErrorsTick \/ FramedRequest \/ FailingRequest

SpecErrors == Init /\ [][NextErrors]_vars

\* ======================================================== properties
\* The header of the last request names an id.
HdrId == ev.hdr[1]

\* The answer of branch 3.
Rejected400 ==
  ev.status = 400 /\ ev.code = -32000 /\ ev.bodyId = "null" /\ ~ev.routed

\* C1: a request of any method whose Mcp-Session-Id header names an id that
\* was never issued is answered 400 with code -32000 and id null, and the
\* registry and the transport map are as they were before the request.
C1_UnknownIdRejected ==
  (ev.op = "request" /\ ev.hdr # << >> /\ HdrId \notin issued) =>
    /\ Rejected400
    /\ sessions = ev.pre
    /\ transports = ev.preT

\* A POST initialize with a made-up id, sent while sessions are stored.
C1_Witness ==
  /\ ev.op = "request" /\ ev.method = "POST" /\ ev.init
  /\ ev.hdr = <<UnknownId>>
  /\ ev.status = 400
  /\ DOMAIN sessions # {} /\ transports # {}

\* lastActivity of the session the header names, before the request.
IdleSinceBefore ==
  IF HdrId \in DOMAIN ev.pre
    THEN ev.pre[HdrId].lastActivity
    ELSE hist.lastActivity[HdrId]

\* C2: a request presenting the id of a session whose idle time exceeds
\* sessionTimeout is rejected with the 400 'no valid session' answer and is
\* not delivered to a Transport Session, swept or not.
C2_ExpiredIdRejected ==
  (/\ ev.op = "request" /\ ev.hdr # << >> /\ HdrId \in issued
   /\ ev.at - IdleSinceBefore > sessionTimeout) =>
    Rejected400

\* C3: every key of the transport map is a key of the registry.
C3_TransportsInRegistry == transports \subseteq DOMAIN sessions

C5_OnlyInitializeCreates ==
  [][ (DOMAIN sessions' \ DOMAIN sessions # {}) =>
        /\ ev'.op = "request" /\ ev'.method = "POST" /\ ev'.init
        /\ ev'.hdr = << >> ]_vars

\* A request on the continuation path for an id the sweep removed from the
\* registry: it is routed and the registry stays without the id.
C5_Witness ==
  /\ ev.op = "request" /\ ev.branch = "reuse"
  /\ ev.sid \notin DOMAIN ev.pre
  /\ ev.sid \notin DOMAIN sessions
  /\ ev.sid \notin hist.removed

\* C6: getSession(id) returns the stored session iff it is stored and
\* now - lastActivity <= sessionTimeout, leaving the registry alone; for a
\* stored and expired id it returns null and the entry is gone from the
\* registry and from getActiveSessions(); no other entry changes.
C6_GetSessionLazyExpiry ==
  ev.op = "getSession" =>
    LET id == ev.sid
        stored == id \in DOMAIN ev.pre
        live == stored /\ ev.at - ev.pre[id].lastActivity <= sessionTimeout
    IN  /\ (ev.result # {}) <=> live
        /\ live => (ev.result = {ev.pre[id]} /\ sessions = ev.pre)
        /\ (stored /\ ~live) =>
             /\ id \notin DOMAIN sessions
             /\ \A s \in getActiveSessions(sessions) : s.id # id
        /\ \A x \in DOMAIN ev.pre \ {id} :
             x \in DOMAIN sessions /\ sessions[x] = ev.pre[x]
        /\ DOMAIN sessions \subseteq DOMAIN ev.pre

\* getSession of a stored, expired id before any sweep took it.
C6_Witness ==
  /\ ev.op = "getSession"
  /\ ev.sid \in DOMAIN ev.pre
  /\ ev.at - ev.pre[ev.sid].lastActivity > sessionTimeout
  /\ ev.result = {}

\* The updateActivity calls of id were spaced less than sessionTimeout apart,
\* nobody removed it, and the last call is less than sessionTimeout ago.
KeptAlive(id) ==
  /\ id \in issued
  /\ id \notin hist.removed
  /\ hist.spaced[id]
  /\ now - hist.lastCall[id] < sessionTimeout

\* C7: a session whose updateActivity calls are spaced less than
\* sessionTimeout apart is returned by getSession, whatever its age and
\* whatever sweeps ran in between.
C7_SlidingWindow ==
  \A id \in Ids :
    KeptAlive(id) =>
      /\ id \in DOMAIN sessions
      /\ getSession(sessions, id, now).result = {sessions[id]}

\* A kept-alive session older than sessionTimeout, right after a sweep.
C7_Witness ==
  /\ ev.op = "sweep"
  /\ \E id \in Ids :
       /\ KeptAlive(id)
       /\ id \in DOMAIN sessions
       /\ now - sessions[id].createdAt > sessionTimeout
       /\ sessions[id].lastActivity > sessions[id].createdAt

\* C8: removeSession never throws, a second removeSession(id) leaves the
\* registry as the first one left it, and a removeSession of an id that is
\* not stored changes nothing.
C8_RemoveIdempotent ==
  /\ \A id \in AllIds :
       LET r1 == removeSession(sessions, id)
           r2 == removeSession(r1.sessions, id)
       IN  ~r1.threw /\ ~r2.threw /\ r2.sessions = r1.sessions
  /\ (ev.op = "removeSession") => ~ev.threw
  /\ (ev.op = "removeSession" /\ ev.sid \notin DOMAIN ev.pre) =>
       sessions = ev.pre

\* The second of two removeSession calls with the same, once stored id,
\* while another session is stored.
C8_Witness ==
  /\ ev.op = "removeSession" /\ ev.repeat
  /\ ev.sid \in issued
  /\ DOMAIN sessions # {}

\* C9: updateActivity(id) of a stored id sets its lastActivity to now and
\* keeps id, createdAt and isActive; every other entry and the set of stored
\* ids are unchanged; for an id that is not stored nothing changes.
C9_UpdateActivityFrame ==
  ev.op = "updateActivity" =>
    /\ DOMAIN sessions = DOMAIN ev.pre
    /\ \A x \in DOMAIN ev.pre \ {ev.sid} : sessions[x] = ev.pre[x]
    /\ ev.sid \in DOMAIN ev.pre =>
         /\ sessions[ev.sid].lastActivity = ev.at
         /\ sessions[ev.sid].createdAt = ev.pre[ev.sid].createdAt
         /\ sessions[ev.sid].isActive = ev.pre[ev.sid].isActive
         /\ sessions[ev.sid].id = ev.pre[ev.sid].id

\* A touch that moves lastActivity of one of two stored sessions.
C9_Witness ==
  /\ ev.op = "updateActivity"
  /\ ev.sid \in DOMAIN ev.pre
  /\ ev.pre[ev.sid].lastActivity < ev.at
  /\ sessions[ev.sid].lastActivity = ev.at
  /\ Cardinality(DOMAIN sessions) >= 2

\* C10: after a sweep the registry holds exactly the entries that had
\* now - lastActivity <= sessionTimeout before it, each unchanged.
C10_SweepExact ==
  ev.op = "sweep" =>
    /\ DOMAIN sessions =
         {x \in DOMAIN ev.pre :
            ev.at - ev.pre[x].lastActivity <= sessionTimeout}
    /\ \A x \in DOMAIN sessions : sessions[x] = ev.pre[x]

\* A sweep that removes one entry and keeps another.
C10_Witness ==
  /\ ev.op = "sweep"
  /\ DOMAIN ev.pre \ DOMAIN sessions # {}
  /\ DOMAIN sessions # {}

\* C11: with the sweep run on its timer, the clock is never past the next
\* due sweep, and an entry whose idle time exceeds sessionTimeout is stored
\* only if it was still within sessionTimeout at the previous sweep: it is
\* removed at the sweep that is due, at most SweepPeriod after its idle time
\* reached sessionTimeout, whatever requests arrive for other sessions.
C11_ExpiredWithinOneSweepPeriod ==
  /\ timer - SweepPeriod <= now
  /\ now <= timer
  /\ \A id \in DOMAIN sessions :
       now - sessions[id].lastActivity > sessionTimeout =>
         sessions[id].lastActivity + sessionTimeout >= timer - SweepPeriod

\* A sweep on the timer, not the first one, that removes an idle session.
C11_Witness ==
  /\ ev.op = "sweep"
  /\ timer > 2 * SweepPeriod
  /\ \E id \in DOMAIN ev.pre :
       /\ id \notin DOMAIN sessions
       /\ ev.at - ev.pre[id].lastActivity > sessionTimeout

\* C12: after a request routed on the continuation path that is not a
\* DELETE, the registry holds the session named in the header and its
\* lastActivity is the time of the request.
C12_ContinuationTouches ==
  (ev.op = "request" /\ ev.branch = "reuse" /\ ev.method # "DELETE") =>
    /\ ev.sid \in DOMAIN sessions
    /\ sessions[ev.sid].lastActivity = ev.at

\* C13: a request routed on the continuation path for session X leaves the
\* registry entry and the transport binding of every other id as they were,
\* and of X it changes lastActivity only (a DELETE removes X).
C13_NoInterference ==
  (ev.op = "request" /\ ev.branch = "reuse") =>
    /\ \A y \in AllIds \ {ev.sid} :
         /\ (y \in DOMAIN sessions) <=> (y \in DOMAIN ev.pre)
         /\ y \in DOMAIN ev.pre => sessions[y] = ev.pre[y]
         /\ (y \in transports) <=> (y \in ev.preT)
    /\ (ev.method # "DELETE" /\ ev.sid \in DOMAIN ev.pre) =>
         /\ ev.sid \in DOMAIN sessions
         /\ sessions[ev.sid] =
              [ev.pre[ev.sid] EXCEPT !.lastActivity = ev.at]
         /\ ev.sid \in transports

\* A request for X moves X's lastActivity while an older session Y is stored
\* and bound to a transport.
C13_Witness ==
  /\ ev.op = "request" /\ ev.branch = "reuse" /\ ev.method # "DELETE"
  /\ ev.sid \in DOMAIN ev.pre
  /\ ev.pre[ev.sid].lastActivity < ev.at
  /\ \E y \in DOMAIN sessions \cap transports :
       /\ y # ev.sid
       /\ sessions[y].lastActivity < ev.at

\* C14: GET /health answers 200 and its activeSessions is the number of
\* stored sessions whose idle time at the request is at most sessionTimeout.
C14_HealthCountsLive ==
  ev.op = "health" =>
    /\ ev.status = 200
    /\ ev.result =
         {Cardinality({x \in DOMAIN ev.pre :
                         ev.at - ev.pre[x].lastActivity <= sessionTimeout})}

\* C15: a DELETE whose header names an id that is in neither the transport
\* map nor the registry is not answered with an error status, and leaves
\* both maps as they were.
C15_DeleteIdempotent ==
  (/\ ev.op = "request" /\ ev.method = "DELETE" /\ ev.hdr # << >>
   /\ HdrId \notin ev.preT /\ HdrId \notin DOMAIN ev.pre) =>
    /\ ev.status < 400
    /\ sessions = ev.pre
    /\ transports = ev.preT

\* The step is a destruction trigger acting on the id ev'.sid.
IsCloseOrDelete ==
  \/ ev'.op = "close"
  \/ ev'.op = "request" /\ ev'.method = "DELETE" /\ ev'.branch = "reuse"

C17_InFlightOutlivesSession ==
  [][/\ \A id \in inflight :
          id \in inflight' \/ (ev'.op = "complete" /\ ev'.sid = id)
     /\ (ev'.op = "complete" /\ ev' # ev) =>
          /\ sessions' = sessions
          /\ transports' = transports
          /\ ~ev'.threw]_vars

\* A tool call completes after its session has left the registry.
C17_Witness ==
  /\ ev.op = "complete"
  /\ ev.sid \in issued
  /\ ev.sid \notin DOMAIN ev.pre
  /\ ev.sid \notin DOMAIN sessions

\* An allow-list entry admits the origin as written: the same pieces, with
\* "*" standing for one host label or one port.
EntryAdmits(entry, origin) ==
  /\ Len(entry) = Len(origin)
  /\ \A i \in 1 .. Len(entry) :
       IF entry[i] = "*"
         THEN origin[i] \notin Separators \cup Schemes
         ELSE entry[i] = origin[i]

\* C18: a declared Origin is accepted exactly if an allow-list entry equals
\* it or is a wildcard entry whose "*" stands for one host label or port.
C18_SingleLevelWildcard ==
  (ev.op = "cors" /\ ev.origin # NoOrigin) =>
    (ev.accepted <=>
       \E i \in 1 .. Len(allowedOrigins) :
         EntryAdmits(allowedOrigins[i], ev.origin))

\* C19: a request whose origin the gate refuses is not routed to a
\* transport, is answered by the gate, and leaves the registry and the
\* transport map as they were before it, whatever its method and headers.
C19_GateBeforeSessionLogic ==
  (ev.op = "request" /\ ~OriginAllowed(allowedOrigins, ev.origin)) =>
    /\ ~ev.routed
    /\ ev.branch = "cors"
    /\ ev.sid \notin issued
    /\ sessions = ev.pre
    /\ transports = ev.preT
    /\ inflight = {}

\* A POST from a foreign page is refused while a session is stored, and a
\* request of a local page was let through before.
C19_Witness ==
  /\ ev.op = "request" /\ ev.branch = "cors" /\ ~ev.routed
  /\ ev.origin = <<"http://", "evil", ".", "com">>
  /\ ev.method = "POST"
  /\ DOMAIN sessions # {}
  /\ sessions = ev.pre

\* C20: a call whose first three attempts are answered 500 and whose fourth
\* succeeds ends with a successful result after four attempts, having
\* waited retryDelay, retryDelay * 2 and retryDelay * 4.
C20_RetryThenSuccess ==
  (/\ retry.pc = "done"
   /\ \A i \in 1 .. 3 : retry.script[i] = "http500"
   /\ retry.script[4] = "ok") =>
    /\ retry.result = "ok"
    /\ retry.attempts = 4
    /\ retry.waits = <<retryDelay, retryDelay * retryDelayMultiplier,
                       retryDelay * retryDelayMultiplier
                                  * retryDelayMultiplier>>

\* The answer to the attempt made last.
LastKind == retry.script[retry.attempts]

\* C21: an attempt that failed is followed by another attempt exactly if
\* its failure was a network error, a 5xx, a 429 or a Cloudflare 400 and
\* fewer than maxRetries retries were made before it; so a 404 is thrown to
\* the caller after one attempt.
C21_RetriedIffTransient ==
  (retry.pc \in {"sleep", "done"} /\ retry.attempts >= 1
                                   /\ LastKind # "ok") =>
    ((retry.pc = "sleep") <=>
       (LastKind \in Transient /\ retry.attempts - 1 < maxRetries))

\* C22: a call makes at most maxRetries + 1 attempts and sleeps at most
\* maxRetries times; when it ends, every attempt before the last failed, no
\* sleep followed the last attempt, and it returns a result exactly if the
\* last attempt succeeded and throws otherwise.
C22_RetryBounded ==
  /\ retry.attempts <= maxRetries + 1
  /\ Len(retry.waits) <= maxRetries
  /\ retry.pc = "done" =>
       /\ retry.attempts >= 1
       /\ Len(retry.waits) = retry.attempts - 1
       /\ \A i \in 1 .. retry.attempts - 1 : retry.script[i] # "ok"
       /\ retry.result \in {"ok", "error"}
       /\ (retry.result = "ok") <=> (LastKind = "ok")

\* A call whose every attempt fails ends with an error after
\* maxRetries + 1 attempts and maxRetries sleeps.
C22_Witness ==
  /\ retry.pc = "done" /\ retry.result = "error"
  /\ retry.attempts = maxRetries + 1
  /\ Len(retry.waits) = maxRetries

\* C23: whichever of the six operations is called, if its first attempt
\* meets a network error and the next would succeed, the call returns a
\* result.
C23_EveryToolRecovers ==
  (retry.pc = "done" /\ retry.script = ScriptOf("network", 1)) =>
    retry.result = "ok"

\* |a - b|
Distance(a, b) == IF a >= b THEN a - b ELSE b - a

\* C24: any two calls leave enforceRequestInterval at least
\* minRequestInterval apart.
C24_PacedApart ==
  \A c1 \in DOMAIN pacing.left, c2 \in DOMAIN pacing.left :
    c1 # c2 =>
      Distance(pacing.left[c1], pacing.left[c2]) >= minRequestInterval

\* C25: a tools/call for a listed tool whose arguments object lacks a
\* required field of that tool ends with a validation error and posts
\* nothing to the remote API.
C25_MissingFieldFailsFast ==
  (/\ call.pc = "done" /\ call.name \in ListToolsNames /\ call.hasArgs
   /\ ~(Required(call.name) \subseteq call.args)) =>
    /\ call.error # ""
    /\ ~call.posted

\* C26: the names tools/list returns are the case labels of the switch; a
\* tools/call reaches a method of the Tool Invoker exactly if its name is a
\* listed one, and any other name ends with 'Unknown tool' and no post.
C26_DispatchIffListed ==
  /\ ListToolsNames = CallToolCases
  /\ call.pc = "done" =>
       /\ (call.dispatched # "") <=> (call.name \in ListToolsNames)
       /\ call.name \in ListToolsNames =>
            call.dispatched = HandlerOf(call.name)
       /\ call.name \notin ListToolsNames =>
            /\ call.error = "Error: Unknown tool"
            /\ ~call.posted

\* A call of a tool that is not listed, with arguments.
C26_Witness ==
  /\ call.pc = "done"
  /\ call.name = "delete_task"
  /\ call.hasArgs /\ call.args # {}
  /\ call.error = "Error: Unknown tool"

\* C27: a configuration whose sessionTimeout is a number below 10000 is
\* rejected by validateConfig, so the configuration of a process that
\* got past it has no sessionTimeout below 10000.
C27_SessionTimeoutFloor ==
  config.pc # "idle" =>
    /\ Lt(config.cfg.sessionTimeout, minSessionTimeout) =>
         config.pc = "rejected"
    /\ config.pc \in {"loaded", "running"} =>
         (config.cfg.sessionTimeout.nan
            \/ config.cfg.sessionTimeout.n >= minSessionTimeout)

\* --session-timeout 1000 with a token: rejected for the session timeout
\* alone.
C27_Witness ==
  /\ config.pc = "rejected"
  /\ config.args["session-timeout"] = Lit(<<"1", "0", "0", "0">>)
  /\ config.cfg.sessionTimeout = Num(1000)
  /\ config.error = "Session timeout must be at least 10000ms (10 seconds)"

\* The Default column of the Configuration Options table.
DocumentedDefault(setting) ==
  CASE setting = "enableDnsRebindingProtection" -> Lit(<<"true">>)
    [] setting = "allowedOrigins" ->
         Lit(<<"http://", "localhost", ":", "*", ",",
               "https://", "localhost", ":", "*">>)
    [] OTHER -> DefaultString(setting)

\* The value of a setting that a given string stands for.
Converted(setting, v) ==
  CASE setting = "apiBaseUrl" -> removeTrailingSlash(v.s)
    [] setting \in {"apiTimeout", "httpPort", "sessionTimeout",
                    "maxConnections"} -> parseInt(v.s)
    [] setting = "enableDnsRebindingProtection" -> isSwitchedOn(v)
    [] setting = "allowedOrigins" ->
         LET pieces == split(v.s) IN [i \in DOMAIN pieces |-> trim(pieces[i])]
    [] setting = "apiToken" -> IF Truthy(v) THEN v ELSE Undefined
    [] OTHER -> v.s

\* The values the flags of a setting were given on the command line.
GivenOnCommandLine(setting) ==
  {config.args[Flags(setting)[i]] : i \in DOMAIN Flags(setting)}
    \ {Undefined}

\* The strings a setting is to be taken from: the command line's if a flag
\* of it was given, else the environment's if its variable is set, else
\* the default.
SourceOf(setting) ==
  IF GivenOnCommandLine(setting) # {} THEN GivenOnCommandLine(setting)
  ELSE IF config.env[EnvName(setting)].def
    THEN {config.env[EnvName(setting)]}
  ELSE {DocumentedDefault(setting)}

\* C28: every setting of the configuration has the value of one of its
\* flags if one was given, else of its environment variable if that is
\* set, else its default.
C28_CliThenEnvThenDefault ==
  config.pc # "idle" =>
    \A setting \in Settings :
      \E v \in SourceOf(setting) :
        config.cfg[setting] = Converted(setting, v)

\* C29: without --dns-protection and without TODO_DNS_PROTECTION the
\* configuration has DNS-rebinding protection switched on.
C29_DnsProtectionOnByDefault ==
  (/\ config.pc # "idle"
   /\ ~config.args["dns-protection"].def
   /\ ~config.env["TODO_DNS_PROTECTION"].def) =>
    config.cfg.enableDnsRebindingProtection = TRUE

\* C30: the transport created from a configuration whose transport is
\* 'http' has type 'http', and from one whose transport is 'stdio' has type
\* 'stdio'.
C30_TransportFollowsConfig ==
  config.pc = "running" =>
    /\ config.cfg.transport = <<"http">> => config.transportType = "http"
    /\ config.cfg.transport = <<"stdio">> => config.transportType = "stdio"

\* The values of TodoConfig.transport.
TransportTypes == {<<"stdio">>, <<"http">>, <<"auto">>}

\* C31: a configuration whose transport is none of stdio, http and auto,
\* whose HTTP port is not a number from 1 to 65535, or that has no API
\* token is rejected by validateConfig.
C31_InvalidConfigRejected ==
  (/\ config.pc # "idle"
   /\ \/ config.cfg.transport \notin TransportTypes
      \/ config.cfg.httpPort.nan
      \/ config.cfg.httpPort.n < 1
      \/ config.cfg.httpPort.n > 65535
      \/ ~Truthy(config.cfg.apiToken)) =>
    config.pc = "rejected"

\* C32: destroy leaves the timer cleared and the registry empty, and has
\* marked every session that was stored inactive; with the timer cleared no
\* sweep runs; and on the emptied registry getSession finds nothing,
\* updateActivity and removeSession change nothing and getActiveSessions is
\* empty, for every id.
C32_TeardownEmpties ==
  /\ ev.op = "destroy" =>
       /\ timer = TimerOff
       /\ sessions = << >>
       /\ {o.id : o \in ev.result} = DOMAIN ev.pre
       /\ \A o \in ev.result : ~o.isActive
       /\ getActiveSessions(sessions) = {}
       /\ \A id \in AllIds :
            /\ getSession(sessions, id, now).result = {}
            /\ getSession(sessions, id, now).sessions = << >>
            /\ updateActivity(sessions, id, now) = << >>
            /\ removeSession(sessions, id).sessions = << >>
  /\ timer = TimerOff => ev.op # "sweep"
  /\ (/\ timer = TimerOff
      /\ ev.op \in {"getSession", "updateActivity", "removeSession"}
      /\ ev.pre = << >>) =>
       /\ sessions = << >>
       /\ ev.result = {}
       /\ ~ev.threw

\* A registry holding a session is torn down, and some time later
\* getSession is called on it.
C32_Witness ==
  /\ timer = TimerOff
  /\ issued # {}
  /\ hist.lastCall[1] < now
  /\ ev.op = "getSession"
  /\ ev.sid \in issued
  /\ ev.result = {}

\* C39: every stored session is active, is stored under its own id and was
\* last active no earlier than it was created, so getActiveSessions is the
\* set of stored sessions.
C39_StoredSessionsActive ==
  /\ \A id \in DOMAIN sessions :
       /\ sessions[id].isActive
       /\ sessions[id].id = id
       /\ sessions[id].lastActivity >= sessions[id].createdAt
  /\ getActiveSessions(sessions) = {sessions[id] : id \in DOMAIN sessions}

\* A session touched after its creation is stored beside one that was
\* removed.
C39_Witness ==
  /\ \E id \in DOMAIN sessions :
       sessions[id].lastActivity > sessions[id].createdAt
  /\ issued \ DOMAIN sessions # {}
  /\ ev.op = "removeSession"

\* C36: the step of a continuation request that finds the transport of the
\* session id in the map is the step that touches the session: the lookup
\* is answered from the state the step starts in, and when the step ends,
\* at the same clock value, a session that was stored carries the time of
\* the request (a DELETE has removed it); and no stored session is ever
\* seen half-written.
C36_LookupAndTouchInOneStep ==
  /\ (ev.op = "request" /\ ev.branch = "reuse") =>
       /\ ev.sid \in ev.preT
       /\ ev.at = now
       /\ (ev.sid \in DOMAIN ev.pre /\ ev.method # "DELETE") =>
            /\ ev.sid \in DOMAIN sessions
            /\ sessions[ev.sid].lastActivity = ev.at
       /\ ev.method = "DELETE" =>
            ev.sid \notin DOMAIN sessions /\ ev.sid \notin transports
  /\ \A id \in DOMAIN sessions :
       /\ DOMAIN sessions[id] = {"id", "createdAt", "lastActivity", "isActive"}
       /\ sessions[id].id = id
       /\ sessions[id].createdAt <= sessions[id].lastActivity
       /\ sessions[id].lastActivity <= now

\* A continuation request touches a session that was idle, after a sweep
\* has removed another session.
C36_Witness ==
  /\ ev.op = "request" /\ ev.branch = "reuse" /\ ev.method = "POST"
  /\ ev.sid \in DOMAIN ev.pre
  /\ ev.pre[ev.sid].lastActivity < ev.at
  /\ transports \ DOMAIN sessions # {}

\* What a start() or stop() call found, and what it threw.
Found == CHOOSE f \in ev.result : TRUE

\* C35: every id stored in the registry has a transport in the transport
\* map.
C35_RegistryEntriesBound == DOMAIN sessions \subseteq transports

\* C37: start() on a running transport throws 'already running' and changes
\* nothing; stop() on a transport that is not running changes nothing and
\* does not throw; each transport is running exactly when its last
\* completed call was a successful start(); and when HttpTransport.stop()
\* returns, the transport map is empty and the registry is torn down.
C37_StartStopLifecycle ==
  /\ (ev.op = "http.start" /\ Found.lifecycle.running) =>
       /\ ev.threw
       /\ Found.error = "HTTP transport is already running"
       /\ lifecycle = Found.lifecycle /\ timer = Found.timer
       /\ sessions = ev.pre /\ transports = ev.preT
  /\ (ev.op = "stdio.start" /\ Found.lifecycle.stdioRunning) =>
       /\ ev.threw
       /\ Found.error = "Stdio transport is already running"
       /\ lifecycle = Found.lifecycle /\ timer = Found.timer
       /\ sessions = ev.pre /\ transports = ev.preT
  /\ (\/ ev.op = "http.stop" /\ ~Found.lifecycle.running
      \/ ev.op = "stdio.stop" /\ ~Found.lifecycle.stdioRunning) =>
       /\ ~ev.threw
       /\ lifecycle = Found.lifecycle /\ timer = Found.timer
       /\ sessions = ev.pre /\ transports = ev.preT
  /\ lifecycle.running = (lifecycle.last = "start")
  /\ lifecycle.stdioRunning = (lifecycle.stdioLast = "start")
  /\ ev.op = "http.stopped" =>
       /\ transports = {}
       /\ sessions = << >>
       /\ timer = TimerOff
       /\ ~lifecycle.sessionManager

\* C38: while the HTTP transport is neither running nor being started or
\* stopped, it holds no registry and no timer is live, so no sweep runs;
\* and a running transport has exactly one live timer.
C38_FailedStartLeavesNothing ==
  /\ (~lifecycle.running /\ lifecycle.pc = "idle") =>
       /\ ~lifecycle.sessionManager
       /\ lifecycle.timers = 0
       /\ timer = TimerOff
       /\ ev.op # "sweep"
  /\ lifecycle.running =>
       lifecycle.sessionManager /\ lifecycle.timers = 1

\* What the last request carried, or the fault it met.
Carry == CHOOSE c \in ev.result : TRUE

\* The last event is a POST whose body JSON.parse rejects.
UnparseablePost ==
  /\ ev.op = "request" /\ ev.method = "POST" /\ ev.result # {}
  /\ "body" \in DOMAIN Carry
  /\ Carry.body = "garbage"

\* The answer of the framing layer: 400, JSON-RPC parse error, id null, no
\* route run, neither map changed.
ParseErrorAnswer ==
  /\ ev.status = 400 /\ ev.code = -32700 /\ ev.bodyId = "null"
  /\ ~ev.routed /\ ev.branch = "framing"
  /\ sessions = ev.pre /\ transports = ev.preT

C33_HandlerCatchesErrors ==
  (ev.op = "request" /\ ev.result # {} /\ "fault" \in DOMAIN Carry) =>
    /\ ~ev.threw
    /\ Carry.process = "running"
    /\ Carry.fault # "handleRequestAfterHeaders" =>
         ev.status = 500 /\ ev.code = -32603 /\ ev.bodyId = "null"
    /\ transports = ev.preT
    /\ DOMAIN sessions = DOMAIN ev.pre

\* transport.handleRequest rejects on a continuation request of a stored
\* session, before any answer; and later the server answers an initialize.
C33_Witness ==
  /\ ev.op = "request" /\ ev.result # {} /\ "fault" \in DOMAIN Carry
  /\ Carry.fault = "handleRequest"
  /\ ev.sid \in DOMAIN ev.pre
  /\ ev.status = 500

====
